---- MODULE Spec2Model ----
(***************************************************************************)
(* PDF chat backend: chunker (pdf.js), TF-IDF retrieval (retrieval.js),    *)
(* map-reduce summariser (summary.js), document store (store.js) and the   *)
(* chat handler (server.js).                                               *)
(*                                                                         *)
(* Text is a sequence of one-character strings.  Real-valued weights are   *)
(* fixed-point integers: idf carries two decimals (x100), normalised       *)
(* vector components three (x FixedPoint), scores are dot products of two  *)
(* normalised vectors (x FixedPoint^2).                                    *)
(***************************************************************************)
EXTENDS Integers, Sequences, FiniteSets, TLC

VARIABLES search, chunker, rows, docs, mapCache, req, budget, summarized, calls, cmp, pure

vars ==
    <<search, chunker, rows, docs, mapCache, req, budget, summarized, calls, cmp, pure>>

----------------------------------------------------------------------------
(* Characters and strings (JavaScript String methods)                      *)

UpperCase == <<"A","B","C","D","E","F","G","H","I","J","K","L","M",
               "N","O","P","Q","R","S","T","U","V","W","X","Y","Z">>

LowerCase == <<"a","b","c","d","e","f","g","h","i","j","k","l","m",
               "n","o","p","q","r","s","t","u","v","w","x","y","z">>

Digits == {"0","1","2","3","4","5","6","7","8","9"}

Range(s) == { s[i] : i \in DOMAIN s }

\* String.prototype.toLowerCase, one character
toLowerCaseChar(c) ==
    IF \E i \in DOMAIN UpperCase : UpperCase[i] = c
    THEN LowerCase[CHOOSE i \in DOMAIN UpperCase : UpperCase[i] = c]
    ELSE c

toLowerCase(s) == [i \in DOMAIN s |-> toLowerCaseChar(s[i])]

\* the regex class \s
IsSpace(c) == c \in {" ", "\n", "\t"}

\* the regex class [a-z0-9]
IsAlnum(c) == c \in Range(LowerCase) \cup Digits

\* s.slice(from, to) with 0-based non-negative bounds, as JavaScript clamps them
Slice(s, from, to) ==
    LET f == IF from > Len(s) THEN Len(s) ELSE from
        t == IF to > Len(s) THEN Len(s) ELSE to
    IN  IF t <= f THEN <<>> ELSE SubSeq(s, f + 1, t)

\* s.slice(-n) for n > 0: the last n characters
SliceLast(s, n) == IF n >= Len(s) THEN s ELSE SubSeq(s, Len(s) - n + 1, Len(s))

RECURSIVE TrimStart(_)
TrimStart(s) ==
    IF s = <<>> THEN <<>>
    ELSE IF IsSpace(Head(s)) THEN TrimStart(Tail(s)) ELSE s

RECURSIVE TrimEnd(_)
TrimEnd(s) ==
    IF s = <<>> THEN <<>>
    ELSE IF IsSpace(s[Len(s)]) THEN TrimEnd(SubSeq(s, 1, Len(s) - 1)) ELSE s

\* String.prototype.trim
Trim(s) == TrimEnd(TrimStart(s))

\* haystack.startsWith(needle)
StartsWith(h, n) == Len(n) <= Len(h) /\ SubSeq(h, 1, Len(n)) = n

\* haystack.includes(needle)
Includes(h, n) ==
    \E i \in 0..(Len(h) - Len(n)) : SubSeq(h, i + 1, i + Len(n)) = n

\* array.join(sep) over an array of strings
RECURSIVE Join(_, _)
Join(parts, sep) ==
    IF parts = <<>> THEN <<>>
    ELSE IF Len(parts) = 1 THEN parts[1]
    ELSE parts[1] \o sep \o Join(Tail(parts), sep)

----------------------------------------------------------------------------
(* retrieval.js                                                            *)

\* Fixed-point unit of normalised vector components.
FixedPoint == 1000

\* round(100 * ln k) for k = 1..20
LnTimes100 == <<0, 69, 110, 139, 161, 179, 195, 208, 220, 230,
                240, 248, 256, 264, 271, 277, 283, 289, 294, 300>>

RECURSIVE SqrtSearch(_, _, _)
SqrtSearch(n, lo, hi) ==
    IF lo >= hi THEN lo
    ELSE LET mid == (lo + hi + 1) \div 2
         IN  IF mid * mid <= n THEN SqrtSearch(n, mid, hi)
             ELSE SqrtSearch(n, lo, mid - 1)

\* floor(sqrt(n)); the operands here stay below 2^30
ISqrt(n) == SqrtSearch(n, 0, IF n < 32767 THEN n ELSE 32767)

RECURSIVE dot(_, _)
dot(a, b) ==
    IF a = <<>> THEN 0
    ELSE a[1] * (IF Len(b) >= 1 THEN b[1] ELSE 0)
         + dot(Tail(a), IF Len(b) >= 1 THEN Tail(b) ELSE <<>>)

\* Math.sqrt(dot(a, a)) || 1, in the unit of the components of a
norm(a, unit) ==
    LET r == ISqrt(dot(a, a)) IN IF r = 0 THEN unit ELSE r

\* a mutant of normalize: the vector left as it is
unnormalized(vec, unit) == vec

\* vec.map(x => x / n): components of the unit vector, x FixedPoint
normalize(vec, unit) ==
    LET n == norm(vec, unit)
    IN  [i \in DOMAIN vec |-> (vec[i] * FixedPoint) \div n]

\* .replace(/[^a-z0-9\s]/g, ' ')
StripPunct(s) ==
    [i \in DOMAIN s |-> IF IsAlnum(s[i]) \/ IsSpace(s[i]) THEN s[i] ELSE " "]

\* .split(/\s+/): the pieces between runs of whitespace (empty pieces kept
\* at the two ends, as JavaScript does)
SplitWs(s) ==
    LET starts == { i \in DOMAIN s : IsSpace(s[i]) /\ (i = 1 \/ ~IsSpace(s[i - 1])) }
        ends   == { i \in DOMAIN s : IsSpace(s[i]) /\ (i = Len(s) \/ ~IsSpace(s[i + 1])) }
        n      == Cardinality(starts) + 1
        kth(S, k) == CHOOSE i \in S : Cardinality({ j \in S : j < i }) = k - 1
    IN  [k \in 1..n |->
            LET from == IF k = 1 THEN 1 ELSE kth(ends, k - 1) + 1
                to   == IF k = n THEN Len(s) ELSE kth(starts, k) - 1
            IN  IF to < from THEN <<>> ELSE SubSeq(s, from, to)]

tokenize(text) ==
    SelectSeq(SplitWs(StripPunct(toLowerCase(text))),
              LAMBDA t : Len(t) >= 2)

\* position of term t in the insertion-ordered map m (a sequence of
\* [term, count] entries), 0 when absent
MapPos(m, t) ==
    IF \E i \in DOMAIN m : m[i].term = t
    THEN CHOOSE i \in DOMAIN m : m[i].term = t
    ELSE 0

\* m.get(t) || 0
MapGet(m, t) == IF MapPos(m, t) = 0 THEN 0 ELSE m[MapPos(m, t)].count

\* m.set(t, (m.get(t) || 0) + 1), keeping insertion order
MapBump(m, t) ==
    IF MapPos(m, t) = 0 THEN Append(m, [term |-> t, count |-> 1])
    ELSE [m EXCEPT ![MapPos(m, t)].count = @ + 1]

RECURSIVE BumpAll(_, _)
BumpAll(m, terms) ==
    IF terms = <<>> THEN m ELSE BumpAll(MapBump(m, Head(terms)), Tail(terms))

buildTf(tokens) == BumpAll(<<>>, tokens)

Keys(m) == [i \in DOMAIN m |-> m[i].term]

\* the df loop of buildTfidfIndex: one increment per term per chunk
RECURSIVE buildDf(_, _)
buildDf(df, tfs) ==
    IF tfs = <<>> THEN df ELSE buildDf(BumpAll(df, Keys(Head(tfs))), Tail(tfs))

\* Math.log((N + 1) / (d + 1)) + 1, x100
idfOf(N, d0) ==
    LET d == IF d0 = 0 THEN 1 ELSE d0
    IN  LnTimes100[N + 1] - LnTimes100[d + 1] + 100

\* the vector of one term-frequency map over a vocabulary: count * idf at
\* the slot of each known term, 0 elsewhere
rawVector(tf, vocab, idf) ==
    [j \in DOMAIN vocab |-> MapGet(tf, vocab[j]) * idf[j]]

buildTfidfIndex(chunks) ==
    LET tfs   == [i \in DOMAIN chunks |-> buildTf(tokenize(chunks[i].text))]
        df    == buildDf(<<>>, tfs)
        N     == Len(chunks)
        vocab == Keys(df)
        idf   == [j \in DOMAIN vocab |-> idfOf(N, MapGet(df, vocab[j]))]
    IN  [kind    |-> "tfidf",
         vocab   |-> vocab,
         idf     |-> idf,
         vectors |-> [i \in DOMAIN chunks |->
                         normalize(rawVector(tfs[i], vocab, idf), 100)]]

EllipsisChar == "~"

clipText(text, maxChars) ==
    IF text = <<>> THEN <<>>
    ELSE IF maxChars <= 0 THEN text
    ELSE IF Len(text) <= maxChars THEN text
    ELSE Append(Slice(text, 0, IF maxChars - 1 > 0 THEN maxChars - 1 ELSE 0),
                EllipsisChar)

\* the value standing for -Infinity: below every score
NegInfinity == 0 - 1

\* scored.sort((a, b) => b.score - a.score): stable, descending
RECURSIVE InsertByScore(_, _)
InsertByScore(sorted, e) ==
    IF sorted = <<>> THEN <<e>>
    ELSE IF Head(sorted).score >= e.score
         THEN <<Head(sorted)>> \o InsertByScore(Tail(sorted), e)
         ELSE <<e>> \o sorted

\* a mutant of SortByScore: the list left in chunk order
unsorted(acc, rest) == acc \o rest

RECURSIVE SortByScore(_, _)
SortByScore(acc, rest) ==
    IF rest = <<>> THEN acc
    ELSE SortByScore(InsertByScore(acc, Head(rest)), Tail(rest))

Max(a, b) == IF a >= b THEN a ELSE b
Min(a, b) == IF a <= b THEN a ELSE b

\* an options object with no field
NoOpts == [k \in {} |-> 0]

\* opts.k with its destructuring default
Opt(opts, k, default) == IF k \in DOMAIN opts THEN opts[k] ELSE default

\* `remaining <= 0` ends the walk
BudgetExhausted(remaining) == remaining <= 0

\* the ranked walk of searchTfidf (the for loop): acc = [results, used]
RECURSIVE rankedWalk(_, _, _, _, _, _, _)
rankedWalk(scored, chunks, topK, minScore, maxChunkChars, maxTotalChars, acc) ==
    IF scored = <<>> THEN acc
    ELSE IF Len(acc.results) >= Max(1, topK) THEN acc
    ELSE LET e    == Head(scored)
             rest == Tail(scored)
             skip == rankedWalk(rest, chunks, topK, minScore, maxChunkChars,
                                maxTotalChars, acc)
         IN  IF e.score < minScore THEN skip
             ELSE IF e.i > Len(chunks) THEN skip
             ELSE LET chunk     == chunks[e.i]
                      remaining == Max(0, maxTotalChars - acc.used)
                  IN  IF BudgetExhausted(remaining) THEN acc
                      ELSE LET allowance == Min(maxChunkChars, remaining)
                               excerpt   == clipText(chunk.text, allowance)
                           IN  IF excerpt = <<>> THEN skip
                               ELSE rankedWalk(rest, chunks, topK, minScore,
                                      maxChunkChars, maxTotalChars,
                                      [results |-> Append(acc.results,
                                           [chunk |-> [chunk EXCEPT !.text = excerpt],
                                            score |-> e.score]),
                                       used |-> acc.used + Len(excerpt)])

\* index.vectors.map((v, i) => ({ i, score: dot(q, v) }))
chunkScores(index, query) ==
    LET qTf == buildTf(tokenize(query))
        q   == normalize(rawVector(qTf, index.vocab, index.idf), 100)
    IN  [i \in DOMAIN index.vectors |-> [i |-> i, score |-> dot(q, index.vectors[i])]]

\* the score-sorted list of searchTfidf
scoredList(index, query) == SortByScore(<<>>, chunkScores(index, query))

\* the walk's result returned as it is, with no fallback
fallbackDropped(results, scored, chunks, maxChunkChars, maxTotalChars) == results

\* "Best-effort guarantee of at least one result"
fallbackResult(results, scored, chunks, maxChunkChars, maxTotalChars) ==
    IF results = <<>> /\ scored # <<>> /\ scored[1].i <= Len(chunks)
    THEN LET chunk == chunks[scored[1].i]
         IN  <<[chunk |-> [chunk EXCEPT !.text =
                             clipText(chunk.text, Min(maxChunkChars, maxTotalChars))],
                score |-> scored[1].score]>>
    ELSE results

searchTfidf(index, chunks, query, opts) ==
    LET topK          == Opt(opts, "topK", 5)
        minScore      == Opt(opts, "minScore", NegInfinity)
        maxChunkChars == Opt(opts, "maxChunkChars", 1400)
        maxTotalChars == Opt(opts, "maxTotalChars", 9000)
        scored        == scoredList(index, query)
        walked        == rankedWalk(scored, chunks, topK, minScore, maxChunkChars,
                                    maxTotalChars, [results |-> <<>>, used |-> 0])
    IN  fallbackResult(walked.results, scored, chunks, maxChunkChars, maxTotalChars)

----------------------------------------------------------------------------
(* pdf.js                                                                  *)

\* .replace(/\s+/g, ' '): every run of whitespace becomes one blank
RECURSIVE CollapseWs(_, _)
CollapseWs(s, inSpace) ==
    IF s = <<>> THEN <<>>
    ELSE IF IsSpace(Head(s))
         THEN IF inSpace THEN CollapseWs(Tail(s), TRUE)
              ELSE <<" ">> \o CollapseWs(Tail(s), TRUE)
         ELSE <<Head(s)>> \o CollapseWs(Tail(s), FALSE)

normalizeText(text) == Trim(CollapseWs(text, FALSE))

ParagraphSep == <<"\n", "\n">>

\* an id taken from the first page of the chunk instead of its position
chunkIdByPage(docId, chunks, pageStart) == <<docId, pageStart>>

\* `${docId}:${chunks.length}`
chunkId(docId, chunks, pageStart) == <<docId, Len(chunks)>>

\* buf.map((p) => p.text).join('\n\n').trim()
flushText(buf) == Trim(Join([i \in DOMAIN buf |-> buf[i].text], ParagraphSep))

\* a mutant of nextBuf: the tail tagged with the page after pageEnd
nextBufNextPage(text, pageEnd, overlapChars) ==
    IF overlapChars <= 0 THEN <<>>
    ELSE LET tail == SliceLast(text, overlapChars)
         IN  IF Trim(tail) = <<>> THEN <<>>
             ELSE <<[pageNumber |-> pageEnd + 1, text |-> tail]>>

\* the buffer flush() leaves behind: empty, or the overlap tail of the text
\* tagged with the last page of the flushed buffer
nextBuf(text, pageEnd, overlapChars) ==
    IF overlapChars <= 0 THEN <<>>
    ELSE LET tail == SliceLast(text, overlapChars)
         IN  IF Trim(tail) = <<>> THEN <<>>
             ELSE <<[pageNumber |-> pageEnd, text |-> tail]>>

RECURSIVE SumLen(_)
SumLen(buf) == IF buf = <<>> THEN 0 ELSE Len(Head(buf).text) + SumLen(Tail(buf))

\* flush(): st = [chunks, buf, bufLen]
flush(st, docId, overlapChars) ==
    IF st.buf = <<>> THEN st
    ELSE LET pageStart == st.buf[1].pageNumber
             pageEnd   == st.buf[Len(st.buf)].pageNumber
             text      == flushText(st.buf)
             chunks    == IF text # <<>>
                          THEN Append(st.chunks,
                                 [id |-> chunkId(docId, st.chunks, pageStart),
                                  docId |-> docId, pageStart |-> pageStart,
                                  pageEnd |-> pageEnd, text |-> text])
                          ELSE st.chunks
             buf       == nextBuf(text, pageEnd, overlapChars)
         IN  [chunks |-> chunks, buf |-> buf, bufLen |-> SumLen(buf)]

\* pages of fewer than two characters skipped as well
skipShortPage(p) == Len(p.text) < 2

\* `if (!p.text) continue`
skipPage(p) == p.text = <<>>

\* the for loop of chunkPages
RECURSIVE chunkLoop(_, _, _, _, _)
chunkLoop(pages, st, docId, targetChars, overlapChars) ==
    IF pages = <<>> THEN st
    ELSE LET p == Head(pages)
         IN  IF skipPage(p)
             THEN chunkLoop(Tail(pages), st, docId, targetChars, overlapChars)
             ELSE LET pushed == [st EXCEPT !.buf = Append(@, p),
                                           !.bufLen = @ + Len(p.text)]
                  IN  chunkLoop(Tail(pages),
                                IF pushed.bufLen >= targetChars
                                THEN flush(pushed, docId, overlapChars)
                                ELSE pushed,
                                docId, targetChars, overlapChars)

chunkPages(pages, docId, targetChars, overlapChars) ==
    flush(chunkLoop(pages, [chunks |-> <<>>, buf |-> <<>>, bufLen |-> 0],
                    docId, targetChars, overlapChars),
          docId, overlapChars).chunks

----------------------------------------------------------------------------
(* server/constants.js, server/chat-helpers.js, server/settings.js         *)

SETTINGS_TOP_K == 5
SETTINGS_MAX_CHUNK_CHARS == 1200
SETTINGS_MAX_TOTAL_CONTEXT_CHARS == 6500
SETTINGS_CHAT_HISTORY_MESSAGES == 6
SETTINGS_SUMMARY_MAX_CHUNKS == 20

\* MIN_SIMILARITY 0.1 in score units
SETTINGS_MIN_SIMILARITY == (FixedPoint * FixedPoint) \div 10

SUMMARY_TRIGGERS ==
    << <<"k","e","y"," ","f","i","n","d","i","n","g","s">>,
       <<"k","e","y"," ","t","a","k","e","a","w","a","y","s">>,
       <<"m","a","i","n"," ","f","i","n","d","i","n","g","s">>,
       <<"m","a","i","n"," ","r","e","s","u","l","t","s">>,
       <<"s","u","m","m","a","r","i","z","e">>,
       <<"s","u","m","m","a","r","i","s","e">>,
       <<"s","u","m","m","a","r","y">>,
       <<"t","l",";","d","r">> >>

REQUEST_TOO_LARGE_MARKERS ==
    << <<"r","e","q","u","e","s","t"," ","t","o","o"," ","l","a","r","g","e">>,
       <<"4","1","3">>,
       <<"t","p","m">>,
       <<"t","o","k","e","n","s"," ","p","e","r"," ","m","i","n","u","t","e">> >>

FOLLOW_UP_WORDS ==
    << <<"s","e","c","o","n","d">>, <<"t","h","i","r","d">>, <<"f","i","r","s","t">>, <<"f","o","r","m","e","r">>, <<"l","a","t","t","e","r">>, <<"t","h","a","t">>, <<"t","h","i","s">>,
       <<"t","h","o","s","e">>, <<"t","h","e","m">>, <<"i","t">>, <<"o","n","e">> >>

FOLLOW_UP_PREFIXES ==
    << <<"e","l","a","b","o","r","a","t","e">>, <<"e","x","p","a","n","d">>, <<"c","a","n"," ","y","o","u"," ","e","l","a","b","o","r","a","t","e">>, <<"t","e","l","l"," ","m","e"," ","m","o","r","e">> >>

FOLLOW_UP_INCLUDES ==
    << <<"a","s"," ","y","o","u"," ","s","a","i","d">>, <<"c","o","m","p","a","r","e"," ","t","o"," ","p","r","e","v","i","o","u","s">>, <<"p","r","e","v","i","o","u","s"," ","r","e","s","e","a","r","c","h">> >>

PREV_USER_MAX_CHARS == 600
PREV_ASSISTANT_MAX_CHARS == 900

RETRY_TOP_K_CAP == 3
RETRY_TOP_K_MIN == 1
RETRY_MIN_CHUNK_CHARS == 500
RETRY_MIN_TOTAL_CHARS == 2500
RETRY_MAX_HISTORY_MESSAGES == 4

\* Math.floor(x * CHAT_DEFAULTS.RETRY.SCALE), SCALE = 0.6
RetryScale(x) == (x * 6) \div 10

DigitValue(c) ==
    CASE c = "0" -> 0 [] c = "1" -> 1 [] c = "2" -> 2 [] c = "3" -> 3 [] c = "4" -> 4
      [] c = "5" -> 5 [] c = "6" -> 6 [] c = "7" -> 7 [] c = "8" -> 8 [] c = "9" -> 9

\* the value of the longest prefix of decimal digits: [seen, n]
RECURSIVE DigitPrefix(_, _)
DigitPrefix(s, acc) ==
    IF s = <<>> \/ Head(s) \notin Digits THEN acc
    ELSE DigitPrefix(Tail(s), [seen |-> TRUE, n |-> acc.n * 10 + DigitValue(Head(s))])

\* parseInt(s, 10): [nan, n]
parseInt(s) ==
    LET t    == TrimStart(s)
        neg  == t # <<>> /\ Head(t) = "-"
        body == IF t # <<>> /\ Head(t) \in {"-", "+"} THEN Tail(t) ELSE t
        d    == DigitPrefix(body, [seen |-> FALSE, n |-> 0])
    IN  [nan |-> ~d.seen, n |-> IF neg THEN 0 - d.n ELSE d.n]

\* parseInt(value || String(DEFAULT), 10) || DEFAULT
intSetting(value, default) ==
    IF value = <<>> THEN default
    ELSE LET v == parseInt(value)
         IN  IF v.nan \/ v.n = 0 THEN default ELSE v.n

\* the process environment with no setting defined
NoEnv == [TOP_K |-> <<>>, MAX_CHUNK_CHARS |-> <<>>, MAX_TOTAL_CONTEXT_CHARS |-> <<>>,
          CHAT_HISTORY_MESSAGES |-> <<>>]

\* getSettings(env); MIN_SIMILARITY is left undefined in every environment
settingsOf(env) ==
    [topK |-> intSetting(env.TOP_K, SETTINGS_TOP_K),
     minSimilarity |-> SETTINGS_MIN_SIMILARITY,
     maxChunkChars |-> intSetting(env.MAX_CHUNK_CHARS, SETTINGS_MAX_CHUNK_CHARS),
     maxTotalContextChars |->
         intSetting(env.MAX_TOTAL_CONTEXT_CHARS, SETTINGS_MAX_TOTAL_CONTEXT_CHARS),
     chatHistoryMessages |->
         intSetting(env.CHAT_HISTORY_MESSAGES, SETTINGS_CHAT_HISTORY_MESSAGES)]

\* getSettings() of a process started with no setting in its environment
getSettings == settingsOf(NoEnv)

\* the regex class \w
IsWordChar(c) == IsAlnum(toLowerCaseChar(c)) \/ c = "_"

\* /\bw\b/.test(s) for a word w of word characters
MatchesWord(s, w) ==
    \E i \in 0..(Len(s) - Len(w)) :
        /\ SubSeq(s, i + 1, i + Len(w)) = w
        /\ (i = 0 \/ ~IsWordChar(s[i]))
        /\ (i + Len(w) = Len(s) \/ ~IsWordChar(s[i + Len(w) + 1]))

isFollowUpQuestion(q) ==
    LET s == Trim(toLowerCase(q))
    IN  /\ s # <<>>
        /\ \/ \E i \in DOMAIN FOLLOW_UP_WORDS : MatchesWord(s, FOLLOW_UP_WORDS[i])
           \/ \E i \in DOMAIN FOLLOW_UP_PREFIXES : StartsWith(s, FOLLOW_UP_PREFIXES[i])
           \/ \E i \in DOMAIN FOLLOW_UP_INCLUDES : Includes(s, FOLLOW_UP_INCLUDES[i])

lastMessageOf(role, messages) ==
    IF \E i \in DOMAIN messages : messages[i].role = role
    THEN messages[CHOOSE i \in DOMAIN messages :
                    /\ messages[i].role = role
                    /\ \A j \in DOMAIN messages : messages[j].role = role => j <= i].content
    ELSE <<>>

\* a mutant of clampChars: the text returned whole
clampNone(s, maxChars) == s

clampChars(s, maxChars) == IF Len(s) <= maxChars THEN s ELSE Slice(s, 0, maxChars)

buildRetrievalQuery(question, messages) ==
    LET q == Trim(question)
    IN  IF ~isFollowUpQuestion(q) \/ messages = <<>> THEN q
        ELSE LET prevUser == clampChars(lastMessageOf("user", messages),
                                        PREV_USER_MAX_CHARS)
                 prevAssistant == clampChars(lastMessageOf("assistant", messages),
                                             PREV_ASSISTANT_MAX_CHARS)
             IN  Join(SelectSeq(
                        << q, <<>>,
                           <<"C","o","n","t","e","x","t"," ","f","r","o","m"," ","c","o","n","v","e","r","s","a","t","i","o","n"," ","(","f","o","r"," ","r","e","t","r","i","e","v","a","l"," ","o","n","l","y",")",":">>,
                           IF prevUser # <<>>
                           THEN <<"P","r","e","v","i","o","u","s"," ","u","s","e","r"," ","q","u","e","s","t","i","o","n",":"," ">> \o prevUser
                           ELSE <<>>,
                           IF prevAssistant # <<>>
                           THEN <<"P","r","e","v","i","o","u","s"," ","a","s","s","i","s","t","a","n","t"," ","a","n","s","w","e","r",":"," ">> \o prevAssistant
                           ELSE <<>> >>,
                        LAMBDA part : part # <<>>),
                      <<"\n">>)

isSummaryQuestion(q) ==
    LET s == toLowerCase(q)
    IN  \E i \in DOMAIN SUMMARY_TRIGGERS :
            IF SUMMARY_TRIGGERS[i] = <<"s","u","m","m","a","r","i","z","e">>
            THEN StartsWith(s, SUMMARY_TRIGGERS[i])
            ELSE Includes(s, SUMMARY_TRIGGERS[i])

\* a mutant of isLikelyRequestTooLargeError: every failure is retried
anyErrorIsTooLarge(message) == TRUE

isLikelyRequestTooLargeError(message) ==
    LET msg == toLowerCase(message)
    IN  \E i \in DOMAIN REQUEST_TOO_LARGE_MARKERS :
            Includes(msg, REQUEST_TOO_LARGE_MARKERS[i])

----------------------------------------------------------------------------
(* summary.js                                                              *)

\* a JavaScript value that is a string, or null / undefined
Null == [isNull |-> TRUE, text |-> <<>>]

Str(t) == [isNull |-> FALSE, text |-> t]

\* truthiness of a string-or-null value
Truthy(v) == ~v.isNull /\ v.text # <<>>

EmptyMap == [k \in {} |-> 0]

MAP_CACHE_MAX_ENTRIES == 1200
MAP_CACHE_TTL_MS == 3600000
SUMMARY_PER_CHUNK_CHARS == 1800
SUMMARY_MAP_CONCURRENCY == 2
SUMMARY_TOP_MATCHES == 12
SUMMARY_SEARCH_TOTAL_CHARS == 50000
MAP_SUMMARY_CLIP_CHARS == 1400

\* SUMMARY_MAP_BATCH_SIZE as configured for the model (default 4)
MapBatchSize == 2

LLM_MODEL == "llama-3.1-8b-instant"

\* `map:${model}:${perChunkChars}:${chunkId}`
mapKey(cid) == <<"map", LLM_MODEL, SUMMARY_PER_CHUNK_CHARS, cid>>

cachePos(cache, key) ==
    IF \E i \in DOMAIN cache : cache[i].key = key
    THEN CHOOSE i \in DOMAIN cache : cache[i].key = key
    ELSE 0

RemoveAt(s, i) == SubSeq(s, 1, i - 1) \o SubSeq(s, i + 1, Len(s))

\* createMapCache().get: the value returned
cacheGetValue(cache, key, now) ==
    LET i == cachePos(cache, key)
    IN  IF i = 0 THEN Null
        ELSE IF now > cache[i].expiresAt THEN Null
        ELSE Str(cache[i].value)

\* a mutant of cacheAfterGet: a hit stays where it is
cacheAfterGetInPlace(cache, key, now) ==
    LET i == cachePos(cache, key)
    IN  IF i = 0 THEN cache
        ELSE IF now > cache[i].expiresAt THEN RemoveAt(cache, i)
        ELSE cache

\* createMapCache().get: the map it leaves (expired entry deleted, hit moved
\* to the most-recent end)
cacheAfterGet(cache, key, now) ==
    LET i == cachePos(cache, key)
    IN  IF i = 0 THEN cache
        ELSE IF now > cache[i].expiresAt THEN RemoveAt(cache, i)
        ELSE Append(RemoveAt(cache, i), cache[i])

\* createMapCache().set of a cache created with maxEntries and ttlMs; the
\* eviction loop stops when the map is empty
cacheSetWith(cache, key, value, now, maxEntries, ttlMs) ==
    LET i == cachePos(cache, key)
        without == IF i = 0 THEN cache ELSE RemoveAt(cache, i)
        added == Append(without, [key |-> key, value |-> value,
                                  expiresAt |-> now + ttlMs])
    IN  IF Len(added) > maxEntries
        THEN SubSeq(added, Len(added) - Max(0, maxEntries) + 1, Len(added))
        ELSE added

\* MAP_SUMMARY_CACHE.set
cacheSet(cache, key, value, now) ==
    cacheSetWith(cache, key, value, now, MAP_CACHE_MAX_ENTRIES, MAP_CACHE_TTL_MS)

SummaryEllipsis == <<"~", "~", "~">>

\* clip() of summary.js
clip(s, maxChars) ==
    IF s = <<>> THEN <<>>
    ELSE IF maxChars <= 0 THEN s
    ELSE IF Len(s) <= maxChars THEN s
    ELSE Slice(s, 0, Max(0, maxChars - 1)) \o SummaryEllipsis

sampleEvenly(chunks, maxItems) ==
    IF chunks = <<>> THEN <<>>
    ELSE IF maxItems <= 0 THEN <<>>
    ELSE IF Len(chunks) <= maxItems THEN chunks
    ELSE [i \in 1..maxItems |-> chunks[((i - 1) * Len(chunks)) \div maxItems + 1]]

\* a mutant of uniqById: every item kept
keepAll(items, seen) == items

RECURSIVE uniqById(_, _)
uniqById(items, seen) ==
    IF items = <<>> THEN <<>>
    ELSE LET id == Head(items).chunk.id
         IN  IF id = <<>> \/ id \in seen THEN uniqById(Tail(items), seen)
             ELSE <<Head(items)>> \o uniqById(Tail(items), seen \cup {id})

DEFAULT_SUMMARY_QUERY ==
    <<"k","e","y"," ","f","i","n","d","i","n","g","s"," ","r","e","s","u","l","t","s"," ",
      "c","o","n","c","l","u","s","i","o","n"," ","c","o","n","t","r","i","b","u","t","i","o","n","s"," ",
      "l","i","m","i","t","a","t","i","o","n","s"," ","f","u","t","u","r","e"," ","w","o","r","k"," ",
      "a","b","s","t","r","a","c","t">>

\* (question || '').trim() || the default query
summaryQueryOf(question) ==
    IF Trim(question) # <<>> THEN Trim(question) ELSE DEFAULT_SUMMARY_QUERY

\* top: the lexical matches of the summary query
topMatches(doc, question, maxSelectedChunks) ==
    searchTfidf(doc.index, doc.chunks, summaryQueryOf(question),
        [topK |-> Min(SUMMARY_TOP_MATCHES, maxSelectedChunks),
         maxChunkChars |-> SUMMARY_PER_CHUNK_CHARS,
         maxTotalChars |-> SUMMARY_SEARCH_TOTAL_CHARS])

\* sampled: the even sample, clipped, with score 0
sampledFor(picked) ==
    [i \in DOMAIN picked |->
        [chunk |-> [picked[i] EXCEPT !.text = clip(@, SUMMARY_PER_CHUNK_CHARS)],
         score |-> 0]]

\* selected, given top
selectFrom(doc, top, maxSelectedChunks) ==
    Slice(uniqById(top \o sampledFor(sampleEvenly(doc.chunks,
                                         Max(0, maxSelectedChunks - Len(top)))), {}),
          0, maxSelectedChunks)

\* the selection of summarizeDocument: top matches, then the even sample
selectChunks(doc, question, maxSelectedChunks) ==
    selectFrom(doc, topMatches(doc, question, maxSelectedChunks), maxSelectedChunks)

selectedItems(selected) ==
    [i \in DOMAIN selected |->
        [chunkId |-> selected[i].chunk.id, pageStart |-> selected[i].chunk.pageStart,
         pageEnd |-> selected[i].chunk.pageEnd, text |-> selected[i].chunk.text]]

\* the cache lookup loop: st = [cache, got]
RECURSIVE lookupAll(_, _, _)
lookupAll(items, st, now) ==
    IF items = <<>> THEN st
    ELSE LET key == mapKey(Head(items).chunkId)
             cached == cacheGetValue(st.cache, key, now)
         IN  lookupAll(Tail(items),
                 [cache |-> cacheAfterGet(st.cache, key, now),
                  got |-> IF ~cached.isNull /\ Trim(cached.text) # <<>>
                          THEN (Head(items).chunkId :> cached.text) @@ st.got
                          ELSE st.got],
                 now)

\* missing.slice(i, i + batchSize) for i = 0, batchSize, ...
RECURSIVE makeBatches(_, _)
makeBatches(missing, batchSize) ==
    IF missing = <<>> THEN <<>>
    ELSE <<Slice(missing, 0, batchSize)>>
         \o makeBatches(Slice(missing, batchSize, Len(missing)), batchSize)

\* parseJsonArrayBestEffort on a raw completion.  raw.form tells what the
\* text is: "array" a JSON array, "wrapped" a JSON array inside other text,
\* "object" JSON that is no array, "prose" no JSON, "empty" nothing.
parseJsonArrayBestEffort(raw) ==
    IF raw.form \in {"array", "wrapped"}
    THEN [isNull |-> FALSE, items |-> raw.items]
    ELSE [isNull |-> TRUE, items |-> <<>>]

\* a mutant of keepEntry: entries with an empty summary kept
keepEntryWithId(x) == x.chunkId # <<>>

\* .filter((x) => x.chunkId && x.summary)
keepEntry(x) == x.chunkId # <<>> /\ x.summary # <<>>

\* what summarizeBatch returns for a raw completion
summarizeBatchResult(raw) ==
    LET arr == parseJsonArrayBestEffort(raw)
    IN  IF arr.isNull THEN <<>> ELSE SelectSeq(arr.items, keepEntry)

\* the loop over batchResults: st = [cache, got]
RECURSIVE mergeList(_, _, _)
mergeList(list, st, now) ==
    IF list = <<>> THEN st
    ELSE LET r == Head(list)
             v == clip(r.summary, MAP_SUMMARY_CLIP_CHARS)
         IN  mergeList(Tail(list),
                 [cache |-> cacheSet(st.cache, mapKey(r.chunkId), v, now),
                  got |-> (r.chunkId :> v) @@ st.got],
                 now)

RECURSIVE mergeBatchResults(_, _, _)
mergeBatchResults(lists, st, now) ==
    IF lists = <<>> THEN st
    ELSE mergeBatchResults(Tail(lists), mergeList(Head(lists), st, now), now)

\* the items still without a summary, in selection order
stillMissing(items, got) ==
    SelectSeq(items, LAMBDA it : it.chunkId \notin DOMAIN got)

\* mapSummaries, one per item
mapSummaries(items, got) ==
    [i \in DOMAIN items |->
        [pageStart |-> items[i].pageStart, pageEnd |-> items[i].pageEnd,
         chunkId |-> items[i].chunkId,
         summary |-> IF items[i].chunkId \in DOMAIN got
                     THEN got[items[i].chunkId] ELSE <<>>]]

summarySources(summaries) ==
    [i \in DOMAIN summaries |->
        [chunkId |-> summaries[i].chunkId, pageStart |-> summaries[i].pageStart,
         pageEnd |-> summaries[i].pageEnd]]

----------------------------------------------------------------------------
(* store.js                                                                *)

\* the row upsert() writes: the serialisable parts, summary ?? null.  The
\* table has the documented columns, so the first row layout is accepted.
rowOf(doc) ==
    [id |-> doc.id, pages |-> doc.pages, chunks |-> doc.chunks,
     totalExtractedChars |-> doc.totalExtractedChars, summary |-> doc.summary]

\* an entry cached as the caller gave it, index included
cacheEntryAsGiven(doc) == doc

\* the entry upsert() caches: { ...doc, index }
cacheEntryOf(doc) == [doc EXCEPT !.index = buildTfidfIndex(doc.chunks)]

\* a mutant of upsertEffect: the cache entry set before the write is awaited
upsertCacheFirst(table, cache, doc, ok) ==
    [rows |-> IF ok THEN (doc.id :> rowOf(doc)) @@ table ELSE table,
     docs |-> (doc.id :> cacheEntryOf(doc)) @@ cache,
     threw |-> ~ok]

\* upsert(doc) run without interruption on a table and a cache: the row is
\* written and then the entry cached, or the write fails and upsert throws
upsertEffect(table, cache, doc, ok) ==
    IF ok
    THEN [rows |-> (doc.id :> rowOf(doc)) @@ table,
          docs |-> (doc.id :> cacheEntryOf(doc)) @@ cache,
          threw |-> FALSE]
    ELSE [rows |-> table, docs |-> cache, threw |-> TRUE]

\* the document get() builds from a row on a cold load
docFromRow(row) ==
    [id |-> row.id, pages |-> row.pages, chunks |-> row.chunks,
     totalExtractedChars |-> row.totalExtractedChars, summary |-> row.summary,
     index |-> buildTfidfIndex(row.chunks)]

NoIndex == [kind |-> "none", vocab |-> <<>>, idf |-> <<>>, vectors |-> <<>>]

\* the calls of get() and upsert() in flight.  Each call runs to its await
\* of the database client in one step, and its continuation in another; the
\* database serves the query at some moment in between.
MaxCalls == 2

NoDoc ==
    [id |-> "", pages |-> <<>>, chunks |-> <<>>, totalExtractedChars |-> 0,
     summary |-> Null, index |-> NoIndex]

NoRow ==
    [id |-> "", pages |-> <<>>, chunks |-> <<>>, totalExtractedChars |-> 0,
     summary |-> Null]

CallIdle ==
    [op |-> "none", pc |-> "idle", id |-> "", doc |-> NoDoc,
     data |-> NoRow, found |-> FALSE, error |-> FALSE,
     outcome |-> "none", result |-> NoDoc, cold |-> FALSE]

NoCalls == [c \in 1..MaxCalls |-> CallIdle]

\* no call of a helper function made yet
PureIdle == [fn |-> "none"]

\* a compare request not yet received
CmpIdle ==
    [pc |-> "idle", env |-> NoEnv, docA |-> NoDoc, docB |-> NoDoc, mode |-> "",
     task |-> <<>>, opts |-> NoOpts, aRetrieved |-> <<>>, bRetrieved |-> <<>>,
     status |-> 0,
     answer |-> <<>>, sourcesA |-> <<>>, sourcesB |-> <<>>]

\* get(id) up to its await: a cached entry is returned at once
getCall(call, cache, id) ==
    IF id \in DOMAIN cache
    THEN [call EXCEPT !.op = "get", !.id = id, !.pc = "done",
                      !.outcome = "doc", !.result = cache[id]]
    ELSE [call EXCEPT !.op = "get", !.id = id, !.pc = "reading"]

\* the database serves select('*').eq('id', id).maybeSingle()
getRead(call, table, ok) ==
    IF ~ok
    THEN [call EXCEPT !.pc = "read", !.error = TRUE]
    ELSE IF call.id \in DOMAIN table
         THEN [call EXCEPT !.pc = "read", !.found = TRUE, !.data = table[call.id]]
         ELSE [call EXCEPT !.pc = "read"]

\* get(id) after its await
getResume(call) ==
    IF call.error
    THEN [call EXCEPT !.pc = "done", !.outcome = "throw"]
    ELSE IF ~call.found
         THEN [call EXCEPT !.pc = "done", !.outcome = "null"]
         ELSE [call EXCEPT !.pc = "done", !.outcome = "doc", !.cold = TRUE,
                           !.result = docFromRow(call.data)]

\* upsert(doc) after its await
upsertResume(call) ==
    IF call.error
    THEN [call EXCEPT !.pc = "done", !.outcome = "throw"]
    ELSE [call EXCEPT !.pc = "done", !.outcome = "stored",
                      !.result = cacheEntryOf(call.doc)]

----------------------------------------------------------------------------
(* server.js: the upload and chat handlers over the document store         *)

serverVars == <<rows, docs, mapCache, req, budget, summarized, calls, cmp, pure>>

SOURCE_EXCERPT_CHARS == 240

NO_READABLE_TEXT_ANSWER ==
    << "N","o"," ","r","e","a","d","a","b","l","e"," ","t","e","x","t"," ","w","a","s"," ","e","x","t",
       "r","a","c","t","e","d"," ","f","r","o","m"," ","t","h","i","s"," ","P","D","F",","," ","s","o",
       " ","I"," ","c","a","n","'","t"," ","a","n","s","w","e","r"," ","q","u","e","s","t","i","o","n",
       "s"," ","f","r","o","m"," ","i","t","."," ","I","f"," ","t","h","i","s"," ","i","s"," ","a"," ",
       "s","c","a","n","n","e","d"," ","P","D","F",","," ","O","C","R"," ","s","u","p","p","o","r","t",
       " ","w","o","u","l","d"," ","b","e"," ","n","e","e","d","e","d","." >>

NO_RELEVANT_SECTION_ANSWER ==
    << "I"," ","c","o","u","l","d","n","'","t"," ","f","i","n","d"," ","a"," ","r","e","l","e","v","a",
       "n","t"," ","s","e","c","t","i","o","n"," ","f","o","r"," ","t","h","a","t"," ","q","u","e","s",
       "t","i","o","n"," ","i","n"," ","t","h","e"," ","e","x","t","r","a","c","t","e","d"," ","t","e",
       "x","t","."," ","T","r","y"," ","a","d","d","i","n","g"," ","u","n","i","q","u","e"," ","k","e",
       "y","w","o","r","d","s"," ","f","r","o","m"," ","t","h","e"," ","P","D","F"," ","(","n","a","m",
       "e","s",","," ","h","e","a","d","i","n","g","s",")"," ","o","r"," ","l","o","w","e","r"," ","M",
       "I","N","_","S","I","M","I","L","A","R","I","T","Y"," ","i","n"," ","b","a","c","k","e","n","d",
       "/",".","e","n","v","." >>

NO_CHUNKS_SUMMARY ==
    << "N","o"," ","c","h","u","n","k","s"," ","a","v","a","i","l","a","b","l","e"," ","t","o"," ","s",
       "u","m","m","a","r","i","z","e","." >>

\* requests served in one run of Spec
MaxRequests == 4

\* requests served in one run of SpecSummarize
MaxSummarizeRequests == 3

\* chunkPages' targetChars and overlapChars as the upload handler leaves
\* them (3500 and 300), scaled to the page texts of the model
UploadTargetChars == 4

UploadOverlapChars == 2

\* the clock reading of every cache operation of a run
ClockNow == 0

\* the PDFs a client uploads: a scan (no text on any page) and a text PDF
Pdfs ==
    { [bytes |-> "scan", rawPages |-> << <<>>, <<" ">> >>],
      [bytes |-> "text", rawPages |-> << <<"a","b"," ","c","d">>,
                                         <<" ","e","f"," "," ","a","b">> >>] }

\* sha256(buffer) in hex, first 16 characters
stableDocId(bytes) ==
    CASE bytes = "scan" -> "9f2c51d0a7e3b864"
      [] bytes = "text" -> "e53803d604b4709a"
      [] bytes = "other" -> "7c1d0b5e93aa42f6"
      [] bytes = "long" -> "41b6e0c87d25f9a3"
      [] OTHER -> "0000000000000000"

extractPages(pdf) ==
    [i \in DOMAIN pdf.rawPages |->
        [pageNumber |-> i, text |-> normalizeText(pdf.rawPages[i])]]

RECURSIVE totalChars(_)
totalChars(pages) ==
    IF pages = <<>> THEN 0 ELSE Len(Head(pages).text) + totalChars(Tail(pages))

NoIds == <<>>

ReqIdle ==
    [kind |-> "none", pc |-> "idle", docId |-> "", question |-> <<>>,
     messages |-> <<>>, status |-> 0, answer |-> <<>>, answerKind |-> "",
     sources |-> <<>>, gen |-> <<>>,
     items |-> <<>>, hits |-> {}, got |-> EmptyMap, batches |-> <<>>,
     idx |-> 0, inflight |-> {}, out |-> <<>>, parsed |-> <<>>, outAtFail |-> <<>>,
     cur |-> NoIds, reduceInput |-> <<>>, summary |-> <<>>,
     candidates |-> <<>>, prior |-> [known |-> FALSE, text |-> <<>>, written |-> FALSE],
     persistFailed |-> FALSE]

ServerIdle ==
    /\ rows = EmptyMap
    /\ docs = EmptyMap
    /\ mapCache = <<>>
    /\ req = ReqIdle
    /\ budget = 0
    /\ summarized = EmptyMap
    /\ calls = NoCalls
    /\ cmp = CmpIdle
    /\ pure = PureIdle

\* one generation call entering the log of the request
issue(r, phase, batch, ids, history) ==
    [r EXCEPT !.gen = Append(@, [phase |-> phase, batch |-> batch, ids |-> ids,
                                 history |-> history, status |-> "pending",
                                 message |-> <<>>])]

genIndex(r, phase, batch) ==
    CHOOSE k \in DOMAIN r.gen :
        /\ r.gen[k].phase = phase
        /\ r.gen[k].batch = batch
        /\ r.gen[k].status = "pending"

settle(r, phase, batch, o) ==
    LET k == genIndex(r, phase, batch)
    IN  [r EXCEPT !.gen[k].status = IF o.ok THEN "ok" ELSE "failed",
                  !.gen[k].message = o.message]

respond(r, status, answer, kind, sources) ==
    [r EXCEPT !.pc = "done", !.status = status, !.answer = answer,
              !.answerKind = kind, !.sources = sources]

\* the outer catch of the chat handler
fail(r) == [r EXCEPT !.pc = "done", !.status = 400, !.outAtFail = r.out]

idsOf(items) == [i \in DOMAIN items |-> items[i].chunkId]

\* a mutant of chatBranch: the summary branch taken before the test for
\* readable text
chatBranchSummaryFirst(doc, question) ==
    IF isSummaryQuestion(question) THEN "summary"
    ELSE IF doc.chunks = <<>> \/ doc.totalExtractedChars = 0 THEN "noText"
    ELSE "plain"

\* the order of the checks of the chat handler
chatBranch(doc, question) ==
    IF doc.chunks = <<>> \/ doc.totalExtractedChars = 0 THEN "noText"
    ELSE IF isSummaryQuestion(question) THEN "summary"
    ELSE "plain"

\* after the batches: the next fallback call, or the reduce call
afterMap(r) ==
    LET missing == stillMissing(r.items, r.got)
    IN  IF missing # <<>>
        THEN issue([r EXCEPT !.pc = "fallback", !.cur = missing[1].chunkId],
                   "fallback", 0, <<missing[1].chunkId>>, 0)
        ELSE LET ms == mapSummaries(r.items, r.got)
             IN  issue([r EXCEPT !.pc = "reduce", !.reduceInput = ms],
                       "reduce", 0, idsOf(ms), 0)

\* a mutant of mapResolved: the first worker to finish ends the wait
anyWorkerDone(r) == TRUE

\* await Promise.all(workers) of pMapLimit has resolved
mapResolved(r) == r.inflight = {}

RECURSIVE issueBatches(_, _)
issueBatches(r, n) ==
    IF n = 0 THEN r
    ELSE issue(issueBatches(r, n - 1), "batch", n, idsOf(r.batches[n]), 0)

\* a mutant of workerCount: one worker per item
oneWorkerPerItem(limit, n) == n

\* the number of workers pMapLimit starts
workerCount(limit, n) == Min(Max(1, limit), n)

\* pMapLimit up to its first await: the workers take the first batches
startWorkers(r, items, looked, batches) ==
    LET n == workerCount(SUMMARY_MAP_CONCURRENCY, Len(batches))
        r1 == [r EXCEPT !.pc = "map", !.items = items, !.got = looked.got,
                        !.hits = DOMAIN looked.got, !.batches = batches,
                        !.idx = n, !.inflight = 1..n,
                        !.out = [i \in DOMAIN batches |-> <<>>],
                        !.parsed = [i \in DOMAIN batches |->
                                       [isNull |-> TRUE, items |-> <<>>]]]
    IN  [req |-> IF batches = <<>> THEN afterMap(r1) ELSE issueBatches(r1, n),
         cache |-> looked.cache]

\* the batches of the chunks the cache lookup left without a summary
startMap(r, items, looked) ==
    startWorkers(r, items, looked,
                 makeBatches(stillMissing(items, looked.got), Max(1, MapBatchSize)))

\* the cache lookup of the selected chunks, then the batches
startLookup(r, cache, items) ==
    startMap(r, items,
             lookupAll(items, [cache |-> cache, got |-> EmptyMap], ClockNow))

\* summarizeDocument up to its first await: [req, cache]
startSummarize(r, doc, cache) ==
    IF doc.chunks = <<>>
    THEN [req |-> [r EXCEPT !.pc = "write", !.summary = NO_CHUNKS_SUMMARY],
          cache |-> cache]
    ELSE startLookup(r, cache,
                     selectedItems(selectChunks(doc, r.question,
                                                SETTINGS_SUMMARY_MAX_CHUNKS)))

\* the searchTfidf options of the first attempt
firstOpts(settings) ==
    [topK |-> settings.topK,
     maxChunkChars |-> settings.maxChunkChars,
     maxTotalChars |-> settings.maxTotalContextChars]

\* the searchTfidf options of the retry
tighterOpts(settings) ==
    [topK |-> Max(RETRY_TOP_K_MIN, Min(RETRY_TOP_K_CAP, settings.topK)),
     maxChunkChars |-> Max(RETRY_MIN_CHUNK_CHARS, RetryScale(settings.maxChunkChars)),
     maxTotalChars |-> Max(RETRY_MIN_TOTAL_CHARS,
                           RetryScale(settings.maxTotalContextChars))]

\* messages.slice(-n)
sliceFromEnd(messages, n) ==
    IF n > 0 THEN SliceLast(messages, n)
    ELSE IF n = 0 THEN messages
    ELSE Slice(messages, 0 - n, Len(messages))

\* the history messages of the first prompt
firstHistory(messages, settings) == sliceFromEnd(messages, settings.chatHistoryMessages)

\* the history messages of the retry prompt
retryHistory(messages, settings) ==
    sliceFromEnd(messages, Min(RETRY_MAX_HISTORY_MESSAGES, settings.chatHistoryMessages))

retrieve(doc, query) ==
    searchTfidf(doc.index, doc.chunks, query, firstOpts(getSettings))

candidatesOf(retrieved) ==
    LET strong == SelectSeq(retrieved,
                            LAMBDA x : x.score >= getSettings.minSimilarity)
    IN  IF strong # <<>> THEN strong ELSE retrieved

retrieveTighter(doc, query) ==
    searchTfidf(doc.index, doc.chunks, query, tighterOpts(getSettings))

chatSources(candidates) ==
    [i \in DOMAIN candidates |->
        [chunkId |-> candidates[i].chunk.id,
         pageStart |-> candidates[i].chunk.pageStart,
         pageEnd |-> candidates[i].chunk.pageEnd,
         score |-> candidates[i].score,
         excerpt |-> Slice(candidates[i].chunk.text, 0, SOURCE_EXCERPT_CHARS)]]

resultIds(results) == [i \in DOMAIN results |-> results[i].chunk.id]

\* the plain branch of the chat handler up to its first await
startPlain(r, candidates) ==
    IF candidates = <<>>
    THEN respond(r, 200, NO_RELEVANT_SECTION_ANSWER, "", <<>>)
    ELSE issue([r EXCEPT !.pc = "first", !.candidates = candidates],
               "chat", 0, resultIds(candidates),
               Min(Len(r.messages), getSettings.chatHistoryMessages))

\* the summary stored with the document, when it can be served
cachedSummary(doc) == Truthy(doc.summary) /\ Trim(doc.summary.text) # <<>>

\* the chat handler on a document it found, up to its first await:
\* [req, cache]
serveChat(r, doc, cache, branch) ==
    CASE branch = "noText" ->
           [req |-> respond(r, 200, NO_READABLE_TEXT_ANSWER, "", <<>>),
            cache |-> cache]
      [] branch = "summary" /\ cachedSummary(doc) ->
           [req |-> respond(r, 200, doc.summary.text, "summary_cached", <<>>),
            cache |-> cache]
      [] branch = "summary" /\ ~cachedSummary(doc) ->
           startSummarize(r, doc, cache)
      [] OTHER ->
           [req |-> startPlain(r, candidatesOf(retrieve(doc,
                        buildRetrievalQuery(r.question, r.messages)))),
            cache |-> cache]

\* store.get(id): the document, from the cache or from its row
storeGet(id) == IF id \in DOMAIN docs THEN docs[id] ELSE docFromRow(rows[id])

\* the request record of a chat request as it arrives
chatRequest(docId, question, messages) ==
    [ReqIdle EXCEPT !.kind = "chat", !.docId = docId,
                    !.question = question, !.messages = messages,
                    !.prior = IF docId \in DOMAIN summarized
                              THEN [known |-> TRUE,
                                    text |-> summarized[docId].text,
                                    written |-> summarized[docId].written]
                              ELSE ReqIdle.prior]

\* the effect of the chat handler on a document store.get returned
Serve(r, doc) ==
    /\ docs' = (doc.id :> doc) @@ docs
    /\ req' = serveChat(r, doc, mapCache, chatBranch(doc, r.question)).req
    /\ mapCache' = serveChat(r, doc, mapCache, chatBranch(doc, r.question)).cache

----------------------------------------------------------------------------
(* server/compare-helpers.js and the compare handler of server.js          *)

COMPARE_MODES ==
    {"content", "methodology", "conclusions", "structure", "literal", "custom"}

DEFAULT_PROMPT_CONTENT ==
    << "C","o","m","p","a","r","e"," ","t","h","e"," ","d","o","c","u","m",
       "e","n","t","s",":"," ","k","e","y"," ","s","i","m","i","l","a","r",
       "i","t","i","e","s"," ","a","n","d"," ","k","e","y"," ","d","i","f",
       "f","e","r","e","n","c","e","s","." >>

DEFAULT_PROMPT_METHODOLOGY ==
    << "C","o","m","p","a","r","e"," ","t","h","e"," ","m","e","t","h","o",
       "d","o","l","o","g","y",":"," ","d","a","t","a",","," ","e","x","p",
       "e","r","i","m","e","n","t","a","l"," ","s","e","t","u","p",","," ",
       "e","v","a","l","u","a","t","i","o","n",","," ","a","n","d"," ","l",
       "i","m","i","t","a","t","i","o","n","s","." >>

DEFAULT_PROMPT_CONCLUSIONS ==
    << "C","o","m","p","a","r","e"," ","t","h","e"," ","m","a","i","n"," ",
       "c","o","n","c","l","u","s","i","o","n","s",","," ","r","e","s","u",
       "l","t","s",","," ","a","n","d"," ","k","e","y"," ","t","a","k","e",
       "a","w","a","y","s","." >>

DEFAULT_PROMPT_STRUCTURE ==
    << "C","o","m","p","a","r","e"," ","t","h","e"," ","d","o","c","u","m",
       "e","n","t"," ","s","t","r","u","c","t","u","r","e",":"," ","s","e",
       "c","t","i","o","n","s",","," ","o","r","g","a","n","i","z","a","t",
       "i","o","n",","," ","a","n","d"," ","c","o","v","e","r","a","g","e",
       "." >>

DEFAULT_PROMPT_LITERAL ==
    << "C","o","m","p","a","r","e"," ","l","i","t","e","r","a","l"," ","w",
       "o","r","d","i","n","g"," ","d","i","f","f","e","r","e","n","c","e",
       "s",":"," ","d","e","f","i","n","i","t","i","o","n","s",","," ","r",
       "e","q","u","i","r","e","m","e","n","t","s",","," ","n","u","m","b",
       "e","r","s",","," ","a","n","d"," ","c","o","n","s","t","r","a","i",
       "n","t","s","." >>

MODE_KEYWORDS_METHODOLOGY ==
    << "K","e","y","w","o","r","d","s",":"," ","m","e","t","h","o","d","o",
       "l","o","g","y"," ","m","e","t","h","o","d","s"," ","d","a","t","a",
       " ","d","a","t","a","s","e","t"," ","s","a","m","p","l","i","n","g",
       " ","e","x","p","e","r","i","m","e","n","t"," ","e","v","a","l","u",
       "a","t","i","o","n"," ","m","e","t","r","i","c","s"," ","b","a","s",
       "e","l","i","n","e","s"," ","a","b","l","a","t","i","o","n"," ","l",
       "i","m","i","t","a","t","i","o","n","s" >>

MODE_KEYWORDS_CONCLUSIONS ==
    << "K","e","y","w","o","r","d","s",":"," ","c","o","n","c","l","u","s",
       "i","o","n"," ","c","o","n","c","l","u","s","i","o","n","s"," ","r",
       "e","s","u","l","t","s"," ","f","i","n","d","i","n","g","s"," ","t",
       "a","k","e","a","w","a","y","s"," ","c","o","n","t","r","i","b","u",
       "t","i","o","n","s"," ","l","i","m","i","t","a","t","i","o","n","s",
       " ","f","u","t","u","r","e"," ","w","o","r","k"," ","d","i","s","c",
       "u","s","s","i","o","n" >>

MODE_KEYWORDS_STRUCTURE ==
    << "K","e","y","w","o","r","d","s",":"," ","t","a","b","l","e"," ","o",
       "f"," ","c","o","n","t","e","n","t","s"," ","o","u","t","l","i","n",
       "e"," ","s","t","r","u","c","t","u","r","e"," ","s","e","c","t","i",
       "o","n","s"," ","h","e","a","d","i","n","g","s"," ","c","h","a","p",
       "t","e","r","s"," ","o","v","e","r","v","i","e","w"," ","i","n","t",
       "r","o","d","u","c","t","i","o","n"," ","c","o","n","c","l","u","s",
       "i","o","n"," ","a","p","p","e","n","d","i","x" >>

MODE_KEYWORDS_LITERAL ==
    << "K","e","y","w","o","r","d","s",":"," ","d","e","f","i","n","i","t",
       "i","o","n"," ","s","h","a","l","l"," ","m","u","s","t"," ","s","h",
       "o","u","l","d"," ","r","e","q","u","i","r","e","m","e","n","t","s",
       " ","c","o","n","s","t","r","a","i","n","t","s"," ","t","h","r","e",
       "s","h","o","l","d","s"," ","n","u","m","b","e","r","s"," ","u","n",
       "i","t","s"," ","v","e","r","s","i","o","n"," ","c","o","m","p","a",
       "t","i","b","i","l","i","t","y" >>

TOP_K_BONUS_MODES == {"literal", "structure"}
TOP_K_BONUS == 3
TOP_K_MAX_FOR_BONUS == 10
CONTEXT_SPLIT_FACTOR == 2

\* COMPARE_DEFAULTS.DEFAULT_PROMPTS[mode] || COMPARE_DEFAULTS.DEFAULT_PROMPTS.content
defaultComparePromptForMode(mode) ==
    CASE mode = "methodology" -> DEFAULT_PROMPT_METHODOLOGY
      [] mode = "conclusions" -> DEFAULT_PROMPT_CONCLUSIONS
      [] mode = "structure" -> DEFAULT_PROMPT_STRUCTURE
      [] mode = "literal" -> DEFAULT_PROMPT_LITERAL
      [] OTHER -> DEFAULT_PROMPT_CONTENT

buildCompareRetrievalQuery(mode, task) ==
    LET base == Trim(task)
    IN  CASE mode = "methodology" -> base \o <<"\n", "\n">> \o MODE_KEYWORDS_METHODOLOGY
          [] mode = "conclusions" -> base \o <<"\n", "\n">> \o MODE_KEYWORDS_CONCLUSIONS
          [] mode = "structure" -> base \o <<"\n", "\n">> \o MODE_KEYWORDS_STRUCTURE
          [] mode = "literal" -> base \o <<"\n", "\n">> \o MODE_KEYWORDS_LITERAL
          [] OTHER -> base

\* (body.prompt || '').trim() || defaultComparePromptForMode(mode)
compareTask(mode, prompt) ==
    IF Trim(prompt) # <<>> THEN Trim(prompt) ELSE defaultComparePromptForMode(mode)

topKForMode(mode, topK) ==
    IF mode \in TOP_K_BONUS_MODES
    THEN Min(TOP_K_MAX_FOR_BONUS, topK + TOP_K_BONUS)
    ELSE topK

\* Math.floor(maxTotalContextChars / COMPARE_DEFAULTS.CONTEXT_SPLIT_FACTOR)
sideTotalChars(maxTotalContextChars) == maxTotalContextChars \div CONTEXT_SPLIT_FACTOR

\* the options the compare handler passes to searchTfidf, for either side
compareOpts(settings, mode) ==
    [topK |-> topKForMode(mode, settings.topK),
     minScore |-> settings.minSimilarity,
     maxChunkChars |-> settings.maxChunkChars,
     maxTotalChars |-> sideTotalChars(settings.maxTotalContextChars)]

\* aRetrieved, and likewise bRetrieved
sideRetrieved(doc, settings, mode, task) ==
    searchTfidf(doc.index, doc.chunks, buildCompareRetrievalQuery(mode, task),
                compareOpts(settings, mode))

\* sourcesA, sourcesB of the response
compareSources(retrieved) ==
    [i \in DOMAIN retrieved |->
        [chunkId |-> retrieved[i].chunk.id, score |-> retrieved[i].score,
         excerpt |-> Slice(retrieved[i].chunk.text, 0, SOURCE_EXCERPT_CHARS)]]

\* the compare handler up to its generation call, on the two documents
\* store.get returned
compareStart(env, docA, docB, mode, prompt) ==
    [CmpIdle EXCEPT !.pc = "gen", !.env = env, !.docA = docA, !.docB = docB,
        !.mode = mode, !.task = compareTask(mode, prompt),
        !.opts = compareOpts(settingsOf(env), mode),
        !.aRetrieved = sideRetrieved(docA, settingsOf(env), mode, compareTask(mode, prompt)),
        !.bRetrieved = sideRetrieved(docB, settingsOf(env), mode, compareTask(mode, prompt))]

----------------------------------------------------------------------------
(* Specification SpecSearch: one call of searchTfidf on an index built     *)
(* from the chunk list it is called with.                                  *)

\* longest chunk list of a search input
MaxSearchChunks == 2

SearchTexts ==
    { <<>>,
      <<"a","b">>,
      <<"a","b"," ","c","d">>,
      <<"C","d",","," ","e","f"," ","c","d">>,
      <<"x">> }

SearchQueries ==
    { <<>>,
      <<"a","b">>,
      <<"c","d"," ","a","b","?">>,
      <<"z","z">> }

TopKOpts == { NoOpts, [topK |-> 0], [topK |-> 2] }

MinScoreOpts ==
    { NoOpts, [minScore |-> FixedPoint * 100],
      [minScore |-> 2 * FixedPoint * FixedPoint] }

MaxChunkCharsOpts ==
    { NoOpts, [maxChunkChars |-> 0], [maxChunkChars |-> 1], [maxChunkChars |-> 3] }

MaxTotalCharsOpts ==
    { NoOpts, [maxTotalChars |-> 0], [maxTotalChars |-> 2], [maxTotalChars |-> 4] }

SearchOpts ==
    { a @@ b @@ c @@ d : a \in TopKOpts, b \in MinScoreOpts,
                         c \in MaxChunkCharsOpts, d \in MaxTotalCharsOpts }

\* a chunk list as chunkPages numbers it
MkChunks(docId, texts) ==
    [i \in DOMAIN texts |->
        [id |-> <<docId, i - 1>>, docId |-> docId,
         pageStart |-> i, pageEnd |-> i, text |-> texts[i]]]

SearchChunkLists ==
    { MkChunks("d", texts) :
        texts \in UNION { [1..n -> SearchTexts] : n \in 0..MaxSearchChunks } }

SearchIdle == [chunks |-> <<>>, query |-> <<>>, opts |-> NoOpts,
               index |-> NoIndex, scored |-> <<>>, results |-> <<>>, done |-> FALSE]

ChunkerIdle == [pages |-> <<>>, docId |-> "d", targetChars |-> 1, overlapChars |-> 0,
                chunks |-> <<>>, done |-> FALSE, again |-> <<>>, redone |-> FALSE]

InitSearch ==
    /\ search \in { [chunks |-> c, query |-> q, opts |-> o, index |-> NoIndex,
                     scored |-> <<>>, results |-> <<>>, done |-> FALSE] :
                    c \in SearchChunkLists, q \in SearchQueries, o \in SearchOpts }
    /\ chunker = ChunkerIdle
    /\ ServerIdle

Search ==
    /\ ~search.done
    /\ search' = [search EXCEPT
                    !.index = buildTfidfIndex(search.chunks),
                    !.scored = chunkScores(buildTfidfIndex(search.chunks), search.query),
                    !.results = searchTfidf(buildTfidfIndex(search.chunks),
                                            search.chunks, search.query, search.opts),
                    !.done = TRUE]
    /\ UNCHANGED <<chunker, serverVars>>

NextSearch == Search

SpecSearch == InitSearch /\ [][NextSearch]_vars

----------------------------------------------------------------------------
(* Specification SpecChunk: chunkPages run, and run again, on one page     *)
(* sequence.                                                               *)

\* longest page sequence of a chunker input
MaxPages == 3

PageTexts ==
    { <<>>,
      <<"a">>,
      <<"b","c">>,
      <<"d"," ","e">>,
      <<" ">>,
      <<" ","f">>,
      <<"g"," ">> }

\* pages as extractPages numbers them
MkPages(texts) == [i \in DOMAIN texts |-> [pageNumber |-> i, text |-> texts[i]]]

PageLists ==
    { MkPages(texts) : texts \in UNION { [1..n -> PageTexts] : n \in 0..MaxPages } }

TargetCharsInputs == {1, 3, 5}

OverlapCharsInputs == {0 - 1, 0, 1, 2, 4}

InitChunk ==
    /\ chunker \in { [ChunkerIdle EXCEPT !.pages = p, !.targetChars = t,
                                         !.overlapChars = o] :
                     p \in PageLists, t \in TargetCharsInputs,
                     o \in OverlapCharsInputs }
    /\ search = SearchIdle
    /\ ServerIdle

Chunk ==
    /\ ~chunker.done
    /\ chunker' = [chunker EXCEPT
                     !.chunks = chunkPages(chunker.pages, chunker.docId,
                                           chunker.targetChars, chunker.overlapChars),
                     !.done = TRUE]
    /\ UNCHANGED <<search, serverVars>>

ChunkAgain ==
    /\ chunker.done
    /\ ~chunker.redone
    /\ chunker' = [chunker EXCEPT
                     !.again = chunkPages(chunker.pages, chunker.docId,
                                          chunker.targetChars, chunker.overlapChars),
                     !.redone = TRUE]
    /\ UNCHANGED <<search, serverVars>>

NextChunk == Chunk \/ ChunkAgain

SpecChunk == InitChunk /\ [][NextChunk]_vars

----------------------------------------------------------------------------
(* Specification Spec: upload and chat requests served one at a time over  *)
(* the document store, the map-summary cache and the generation            *)
(* collaborator.                                                           *)

T_Summarize == <<"S","u","m","m","a","r","i","z","e"," ","e","f">>

T_Why == <<"w","h","y","?">>

\* the chat requests of a run: [question, messages]
ChatInputs ==
    { [question |-> T_Summarize, messages |-> <<>>],
      [question |-> <<"a","b">>, messages |-> <<>>],
      [question |-> <<"z","z">>, messages |-> <<>>],
      [question |-> <<"e","f">>, messages |-> <<>>],
      [question |-> T_Why,
       messages |-> << [role |-> "user", content |-> <<"a","b">>],
                       [role |-> "assistant", content |-> <<"A">>] >>] }

SummaryInputs == { c \in ChatInputs : isSummaryQuestion(c.question) }

DocIds == { stableDocId(p.bytes) : p \in Pdfs } \cup { "ffffffffffffffff" }

\* error messages of a failed generation call
T_TooLarge == <<"H","T","T","P"," ","4","1","3">>

T_Timeout == <<"t","i","m","e","o","u","t">>

T_RateLimit == <<"R","a","t","e"," ","l","i","m","i","t",":"," ","T","P","M">>

ErrorMessages == { T_TooLarge, T_RateLimit, T_Timeout }

\* a chunk id of no stored document
ForeignId == <<"0000000000000000", 0>>

Failures(messages) ==
    { [ok |-> FALSE, message |-> m, text |-> <<>>,
       raw |-> [form |-> "none", items |-> <<>>]] : m \in messages }

TextOutcomes(texts, messages) ==
    { [ok |-> TRUE, message |-> <<>>, text |-> t,
       raw |-> [form |-> "none", items |-> <<>>]] : t \in texts }
    \cup Failures(messages)

ChatTexts == { <<"A">>, <<>> }

MapTexts == { <<"m">>, <<>> }

ReduceTexts == { <<"S">>, <<" ","T"," ">>, <<" ">> }

RECURSIVE entriesOf(_, _, _)
entriesOf(batch, f, i) ==
    IF i > Len(batch) THEN <<>>
    ELSE (IF f[i] = "absent" THEN <<>>
          ELSE <<[chunkId |-> batch[i].chunkId,
                  summary |-> IF f[i] = "empty" THEN <<>> ELSE <<"m">>]>>)
         \o entriesOf(batch, f, i + 1)

AllFull(batch) == [i \in DOMAIN batch |-> "full"]

FirstOnly(batch) == [i \in DOMAIN batch |-> IF i = 1 THEN "full" ELSE "absent"]

\* the completions of a batched map call in Spec: every excerpt summarised,
\* or the first one only
FewBatchRaws(batch) ==
    { [form |-> "array", items |-> entriesOf(batch, f, 1)] :
        f \in {AllFull(batch), FirstOnly(batch)} }

\* the completions of a batched map call in SpecSummarize
BatchRaws(batch, items) ==
    LET others == { items[i].chunkId : i \in DOMAIN items }
                    \ { batch[i].chunkId : i \in DOMAIN batch }
    IN  { [form |-> "array", items |-> entriesOf(batch, f, 1)] :
            f \in [DOMAIN batch -> {"absent", "empty", "full"}] }
        \cup { [form |-> "wrapped", items |-> entriesOf(batch, AllFull(batch), 1)] }
        \cup { [form |-> k, items |-> <<>>] : k \in {"object", "prose", "empty"} }
        \cup { [form |-> "array",
                items |-> <<[chunkId |-> id, summary |-> <<"m">>]>>] :
                 id \in others \cup {ForeignId, NoIds} }

BatchOutcomes(raws, messages) ==
    { [ok |-> TRUE, message |-> <<>>, text |-> <<>>, raw |-> w] : w \in raws }
    \cup Failures(messages)

Init ==
    /\ search = SearchIdle
    /\ chunker = ChunkerIdle
    /\ rows = EmptyMap
    /\ docs = EmptyMap
    /\ mapCache = <<>>
    /\ req = ReqIdle
    /\ budget = MaxRequests
    /\ summarized = EmptyMap
    /\ calls = NoCalls
    /\ cmp = CmpIdle
    /\ pure = PureIdle

Quiet == req.pc \in {"idle", "done"}

\* POST /api/documents
Upload(pdf, outcome) ==
    /\ Quiet
    /\ budget > 0
    /\ budget' = budget - 1
    /\ LET id == stableDocId(pdf.bytes)
           pages == extractPages(pdf)
           doc == [id |-> id, pages |-> pages,
                   chunks |-> chunkPages(pages, id, UploadTargetChars,
                                         UploadOverlapChars),
                   totalExtractedChars |-> totalChars(pages),
                   summary |-> Null, index |-> NoIndex]
           r == [ReqIdle EXCEPT !.kind = "upload", !.docId = id, !.pc = "done"]
       IN  IF outcome = "storageFailed"
           THEN /\ req' = [r EXCEPT !.status = 500]
                /\ UNCHANGED <<rows, docs>>
           ELSE /\ rows' = upsertEffect(rows, docs, doc, outcome = "ok").rows
                /\ docs' = upsertEffect(rows, docs, doc, outcome = "ok").docs
                /\ req' = IF upsertEffect(rows, docs, doc, outcome = "ok").threw
                          THEN [r EXCEPT !.status = 500, !.persistFailed = TRUE]
                          ELSE [r EXCEPT !.status = 200]
    /\ UNCHANGED <<search, chunker, pure, cmp, calls, mapCache, summarized>>

\* POST /api/chat up to its first await on the generation collaborator
ChatStart(docId, question, messages, readOk) ==
    /\ Quiet
    /\ budget > 0
    /\ budget' = budget - 1
    /\ docId \in DOMAIN docs => readOk
    /\ IF docId \in DOMAIN docs \/ (readOk /\ docId \in DOMAIN rows)
       THEN Serve(chatRequest(docId, question, messages), storeGet(docId))
       ELSE /\ req' = [chatRequest(docId, question, messages) EXCEPT
                         !.pc = "done", !.status = IF readOk THEN 404 ELSE 400]
            /\ UNCHANGED <<docs, mapCache>>
    /\ UNCHANGED <<search, chunker, pure, cmp, calls, rows, summarized>>

\* a batched map call of pMapLimit returns
BatchReturn(i, o) ==
    /\ i \in req.inflight
    /\ LET settled == [settle(req, "batch", i, o) EXCEPT !.inflight = @ \ {i}]
       IN  IF ~o.ok
           THEN /\ req' = IF settled.pc = "map" THEN fail(settled) ELSE settled
                /\ UNCHANGED mapCache
           ELSE LET r1 == [settled EXCEPT !.out[i] = summarizeBatchResult(o.raw),
                                          !.parsed[i] = parseJsonArrayBestEffort(o.raw)]
                    r2 == IF r1.idx < Len(r1.batches)
                          THEN issue([r1 EXCEPT !.idx = @ + 1,
                                                !.inflight = @ \cup {r1.idx + 1}],
                                     "batch", r1.idx + 1,
                                     idsOf(r1.batches[r1.idx + 1]), 0)
                          ELSE r1
                IN  IF r2.pc = "map" /\ mapResolved(r2)
                    THEN LET merged == mergeBatchResults(r2.out,
                                          [cache |-> mapCache, got |-> r2.got],
                                          ClockNow)
                         IN  /\ req' = afterMap([r2 EXCEPT !.got = merged.got])
                             /\ mapCache' = merged.cache
                    ELSE /\ req' = r2
                         /\ UNCHANGED mapCache
    /\ UNCHANGED <<search, chunker, pure, cmp, calls, rows, docs, budget, summarized>>

\* the individual map call of one chunk returns
FallbackReturn(o) ==
    /\ req.pc = "fallback"
    /\ LET settled == settle(req, "fallback", 0, o)
       IN  IF ~o.ok
           THEN /\ req' = fail(settled)
                /\ UNCHANGED mapCache
           ELSE LET v == clip(o.text, MAP_SUMMARY_CLIP_CHARS)
                IN  /\ req' = afterMap([settled EXCEPT
                                          !.got = (settled.cur :> v) @@ @])
                    /\ mapCache' = cacheSet(mapCache, mapKey(settled.cur), v,
                                            ClockNow)
    /\ UNCHANGED <<search, chunker, pure, cmp, calls, rows, docs, budget, summarized>>

\* the reduce call returns
ReduceReturn(o) ==
    /\ req.pc = "reduce"
    /\ LET settled == settle(req, "reduce", 0, o)
       IN  req' = IF ~o.ok THEN fail(settled)
                  ELSE [settled EXCEPT !.pc = "write", !.summary = Trim(o.text),
                                       !.sources = summarySources(settled.reduceInput)]
    /\ UNCHANGED <<search, chunker, pure, cmp, calls, rows, docs, mapCache, budget, summarized>>

\* store.upsert({ ...doc, summary }) of the summary branch, then the reply
SummaryWrite(persistOk) ==
    /\ req.pc = "write"
    /\ LET doc == [docs[req.docId] EXCEPT !.summary = Str(req.summary)]
       IN  /\ rows' = upsertEffect(rows, docs, doc, persistOk).rows
           /\ docs' = upsertEffect(rows, docs, doc, persistOk).docs
           /\ req' = [respond(req, 200, req.summary, "summary", req.sources) EXCEPT
                        !.persistFailed = upsertEffect(rows, docs, doc, persistOk).threw]
    /\ summarized' = IF req.docId \in DOMAIN summarized THEN summarized
                     ELSE (req.docId :> [text |-> req.summary,
                                         written |-> persistOk]) @@ summarized
    /\ UNCHANGED <<search, chunker, pure, cmp, calls, mapCache, budget>>

\* the first generation call of a plain chat request returns
FirstReturn(o) ==
    /\ req.pc = "first"
    /\ LET settled == settle(req, "chat", 0, o)
           doc == docs[req.docId]
       IN  req' =
             IF o.ok
             THEN respond(settled, 200, o.text, "", chatSources(settled.candidates))
             ELSE IF ~isLikelyRequestTooLargeError(o.message) THEN fail(settled)
             ELSE issue([settled EXCEPT !.pc = "retry"], "retry", 0,
                        resultIds(retrieveTighter(doc,
                            buildRetrievalQuery(req.question, req.messages))),
                        Len(retryHistory(req.messages, getSettings)))
    /\ UNCHANGED <<search, chunker, pure, cmp, calls, rows, docs, mapCache, budget, summarized>>

\* the retry generation call returns
RetryReturn(o) ==
    /\ req.pc = "retry"
    /\ LET settled == settle(req, "retry", 0, o)
       IN  req' = IF o.ok
                  THEN respond(settled, 200, o.text, "",
                               chatSources(settled.candidates))
                  ELSE fail(settled)
    /\ UNCHANGED <<search, chunker, pure, cmp, calls, rows, docs, mapCache, budget, summarized>>

\* the server process restarts: the in-memory caches are lost
Restart ==
    /\ Quiet
    /\ docs # EmptyMap \/ mapCache # <<>>
    /\ docs' = EmptyMap
    /\ mapCache' = <<>>
    /\ req' = ReqIdle
    /\ UNCHANGED <<search, chunker, pure, cmp, calls, rows, budget, summarized>>

Next ==
    \/ \E pdf \in Pdfs, outcome \in {"ok", "storageFailed", "persistFailed"} :
          Upload(pdf, outcome)
    \/ \E docId \in DocIds, c \in ChatInputs, readOk \in BOOLEAN :
          ChatStart(docId, c.question, c.messages, readOk)
    \/ \E i \in req.inflight :
          \E o \in BatchOutcomes(FewBatchRaws(req.batches[i]), {T_Timeout}) :
             BatchReturn(i, o)
    \/ \E o \in TextOutcomes({<<"m">>}, {T_Timeout}) : FallbackReturn(o)
    \/ \E o \in TextOutcomes(ReduceTexts, {T_Timeout}) : ReduceReturn(o)
    \/ \E persistOk \in BOOLEAN : SummaryWrite(persistOk)
    \/ \E o \in TextOutcomes(ChatTexts, ErrorMessages) : FirstReturn(o)
    \/ \E o \in TextOutcomes(ChatTexts, ErrorMessages) : RetryReturn(o)
    \/ Restart

Spec == Init /\ [][Next]_vars

----------------------------------------------------------------------------
(* Specification SpecSummarize: summary requests on the text PDF, with     *)
(* every form of batched completion.                                       *)

InitSummarize ==
    /\ search = SearchIdle
    /\ chunker = ChunkerIdle
    /\ rows = EmptyMap
    /\ docs = EmptyMap
    /\ mapCache = <<>>
    /\ req = ReqIdle
    /\ budget = MaxSummarizeRequests
    /\ summarized = EmptyMap
    /\ calls = NoCalls
    /\ cmp = CmpIdle
    /\ pure = PureIdle

NextSummarize ==
    \/ \E pdf \in { p \in Pdfs : p.bytes = "text" } : Upload(pdf, "ok")
    \/ \E c \in SummaryInputs : ChatStart(stableDocId("text"), c.question, c.messages, TRUE)
    \/ \E i \in req.inflight :
          \E o \in BatchOutcomes(BatchRaws(req.batches[i], req.items), {T_Timeout}) :
             BatchReturn(i, o)
    \/ \E o \in TextOutcomes(MapTexts, {T_Timeout}) : FallbackReturn(o)
    \/ \E o \in TextOutcomes(ReduceTexts, {T_Timeout}) : ReduceReturn(o)
    \/ \E persistOk \in BOOLEAN : SummaryWrite(persistOk)

SpecSummarize == InitSummarize /\ [][NextSummarize]_vars

----------------------------------------------------------------------------
(* Specification SpecStore: calls of DocumentStore.get and                 *)
(* DocumentStore.upsert interleaved at their awaits.                       *)

StoreId == "e53803d604b4709a"

StoreChunkLists ==
    { MkChunks(StoreId, << <<"a","b">> >>),
      MkChunks(StoreId, << <<"a","b"," ","c","d">>, <<"e","f">> >>) }

\* an index a caller's document may already carry ({ ...doc, summary })
StaleIndex == buildTfidfIndex(MkChunks(StoreId, << <<"z">> >>))

StoreDocs ==
    { [id |-> StoreId, pages |-> <<>>, chunks |-> ch,
       totalExtractedChars |-> SumLen(ch),
       summary |-> Null, index |-> ix] :
        ch \in StoreChunkLists, ix \in {NoIndex, StaleIndex} }

InitStore ==
    /\ search = SearchIdle
    /\ chunker = ChunkerIdle
    /\ ServerIdle

StoreGet(c, id) ==
    /\ calls[c].pc = "idle"
    /\ calls' = [calls EXCEPT ![c] = getCall(calls[c], docs, id)]
    /\ UNCHANGED <<search, chunker, pure, cmp, rows, docs, mapCache, req, budget, summarized>>

StoreGetRead(c, ok) ==
    /\ calls[c].op = "get"
    /\ calls[c].pc = "reading"
    /\ calls' = [calls EXCEPT ![c] = getRead(calls[c], rows, ok)]
    /\ UNCHANGED <<search, chunker, pure, cmp, rows, docs, mapCache, req, budget, summarized>>

StoreGetResume(c) ==
    /\ calls[c].op = "get"
    /\ calls[c].pc = "read"
    /\ calls' = [calls EXCEPT ![c] = getResume(calls[c])]
    /\ docs' = IF calls'[c].outcome = "doc"
               THEN (calls[c].id :> calls'[c].result) @@ docs
               ELSE docs
    /\ UNCHANGED <<search, chunker, pure, cmp, rows, mapCache, req, budget, summarized>>

StoreUpsert(c, doc) ==
    /\ calls[c].pc = "idle"
    /\ calls' = [calls EXCEPT ![c] =
                    [@ EXCEPT !.op = "upsert", !.id = doc.id, !.doc = doc,
                              !.pc = "writing"]]
    /\ UNCHANGED <<search, chunker, pure, cmp, rows, docs, mapCache, req, budget, summarized>>

\* the database serves upsert(row, { onConflict: 'id' })
StoreUpsertWrite(c, ok) ==
    /\ calls[c].op = "upsert"
    /\ calls[c].pc = "writing"
    /\ calls' = [calls EXCEPT ![c] = [@ EXCEPT !.pc = "written", !.error = ~ok]]
    /\ rows' = IF ok THEN (calls[c].id :> rowOf(calls[c].doc)) @@ rows ELSE rows
    /\ UNCHANGED <<search, chunker, pure, cmp, docs, mapCache, req, budget, summarized>>

StoreUpsertResume(c) ==
    /\ calls[c].op = "upsert"
    /\ calls[c].pc = "written"
    /\ calls' = [calls EXCEPT ![c] = upsertResume(calls[c])]
    /\ docs' = IF calls'[c].outcome = "stored"
               THEN (calls[c].id :> calls'[c].result) @@ docs
               ELSE docs
    /\ UNCHANGED <<search, chunker, pure, cmp, rows, mapCache, req, budget, summarized>>

\* the caller has taken the outcome of its call; the slot serves a new call
StoreReturn(c) ==
    /\ calls[c].pc = "done"
    /\ calls' = [calls EXCEPT ![c] = CallIdle]
    /\ UNCHANGED <<search, chunker, pure, cmp, rows, docs, mapCache, req, budget, summarized>>

NextStore ==
    \/ \E c \in 1..MaxCalls : StoreGet(c, StoreId)
    \/ \E c \in 1..MaxCalls, ok \in BOOLEAN : StoreGetRead(c, ok)
    \/ \E c \in 1..MaxCalls : StoreGetResume(c)
    \/ \E c \in 1..MaxCalls, doc \in StoreDocs : StoreUpsert(c, doc)
    \/ \E c \in 1..MaxCalls, ok \in BOOLEAN : StoreUpsertWrite(c, ok)
    \/ \E c \in 1..MaxCalls : StoreUpsertResume(c)
    \/ \E c \in 1..MaxCalls : StoreReturn(c)

SpecStore == InitStore /\ [][NextStore]_vars

----------------------------------------------------------------------------
(* Specification SpecCompare: uploads and compare requests served one at a *)
(* time, under the environments of CompareEnvs.                            *)

MaxCompareRequests == 3

ComparePdfs ==
    { p \in Pdfs : p.bytes = "text" }
    \cup { [bytes |-> "other",
            rawPages |-> << <<"d","a","t","a"," ","a","b">>, <<"m","u","s","t">> >>] }

CompareDocIds == { stableDocId(p.bytes) : p \in ComparePdfs } \cup { "0000000000000000" }

CompareEnvs ==
    { NoEnv,
      [NoEnv EXCEPT !.TOP_K = <<"1","2">>],
      [NoEnv EXCEPT !.MAX_TOTAL_CONTEXT_CHARS = <<"1">>],
      [NoEnv EXCEPT !.MAX_TOTAL_CONTEXT_CHARS = <<"7">>],
      [NoEnv EXCEPT !.TOP_K = <<"1">>, !.MAX_CHUNK_CHARS = <<"3">>,
                    !.MAX_TOTAL_CONTEXT_CHARS = <<"7">>] }

ComparePrompts == { <<>>, <<" ","a","b"," ">> }

InitCompare ==
    /\ search = SearchIdle
    /\ chunker = ChunkerIdle
    /\ rows = EmptyMap
    /\ docs = EmptyMap
    /\ mapCache = <<>>
    /\ req = ReqIdle
    /\ budget = MaxCompareRequests
    /\ summarized = EmptyMap
    /\ calls = NoCalls
    /\ cmp = CmpIdle
    /\ pure = PureIdle

Stored(id) == id \in DOMAIN docs \/ id \in DOMAIN rows

\* POST /api/compare up to the generation call
CompareStart(env, docIdA, docIdB, mode, prompt, readOk) ==
    /\ Quiet
    /\ cmp.pc \in {"idle", "done"}
    /\ budget > 0
    /\ budget' = budget - 1
    /\ (docIdA \in DOMAIN docs /\ docIdB \in DOMAIN docs) => readOk
    /\ IF ~readOk
       THEN /\ cmp' = [CmpIdle EXCEPT !.pc = "done", !.status = 400]
            /\ docs' = docs
       ELSE IF ~Stored(docIdA) \/ ~Stored(docIdB)
       THEN /\ cmp' = [CmpIdle EXCEPT !.pc = "done", !.status = 404]
            /\ docs' = [id \in DOMAIN docs \cup ({docIdA, docIdB} \cap DOMAIN rows) |->
                          storeGet(id)]
       ELSE /\ cmp' = compareStart(env, storeGet(docIdA), storeGet(docIdB), mode, prompt)
            /\ docs' = [id \in DOMAIN docs \cup {docIdA, docIdB} |-> storeGet(id)]
    /\ UNCHANGED <<search, chunker, pure, calls, rows, mapCache, req, summarized>>

\* the generation call of the compare handler returns
CompareReturn(o) ==
    /\ cmp.pc = "gen"
    /\ cmp' = IF o.ok
              THEN [cmp EXCEPT !.pc = "done", !.status = 200, !.answer = Trim(o.text),
                               !.sourcesA = compareSources(cmp.aRetrieved),
                               !.sourcesB = compareSources(cmp.bRetrieved)]
              ELSE [cmp EXCEPT !.pc = "done", !.status = 400]
    /\ UNCHANGED <<search, chunker, pure, calls, rows, docs, mapCache, req, budget, summarized>>

NextCompare ==
    \/ \E pdf \in ComparePdfs : Upload(pdf, "ok")
    \/ \E env \in CompareEnvs, a \in CompareDocIds \ {"0000000000000000"}, b \in CompareDocIds,
          mode \in COMPARE_MODES, prompt \in ComparePrompts, readOk \in BOOLEAN :
          CompareStart(env, a, b, mode, prompt, readOk)
    \/ \E o \in TextOutcomes({<<"A">>}, {T_Timeout}) : CompareReturn(o)
    \/ (cmp.pc # "gen" /\ Restart)

SpecCompare == InitCompare /\ [][NextCompare]_vars

----------------------------------------------------------------------------
(* Specification SpecQuery: calls of buildRetrievalQuery.                  *)

Fill(c, n) == [i \in 1..n |-> c]

QueryQuestions ==
    { <<"a","b">>,
      <<" ","w","h","y","?"," ">>,
      <<"t","e","l","l"," ","m","e"," ","m","o","r","e">>,
      <<"W","h","a","t"," ","a","b","o","u","t"," ","I","T">>,
      <<"E","l","a","b","o","r","a","t","e"," ","o","n"," ","c","d">>,
      <<"a","s"," ","y","o","u"," ","s","a","i","d"," ","a","b">>,
      <<>>,
      <<" "," ">>,
      <<"i","t","e","m"," ","t","w","o">>,
      <<"t","h","e"," ","f","i","r","s","t">>,
      <<"E","x","p","a","n","d">>,
      <<"x","t","h","a","t"," ","i","s">> }

\* message contents: empty, short, and longer than either clamp
QueryContents(role) ==
    IF role = "user"
    THEN { <<>>, <<"a","b">>, Fill("u", PREV_USER_MAX_CHARS + 1) }
    ELSE { <<"A">>, Fill("v", PREV_ASSISTANT_MAX_CHARS + 1) }

QueryMessages ==
    UNION { { [role |-> r, content |-> c] : c \in QueryContents(r) } :
              r \in {"user", "assistant"} }

QueryHistories ==
    { <<>> } \cup { <<m>> : m \in QueryMessages }
    \cup { <<m1, m2>> : m1 \in QueryMessages, m2 \in QueryMessages }
    \cup { h \in { <<m1, m2, m3>> : m1 \in QueryMessages, m2 \in QueryMessages,
                                     m3 \in QueryMessages } :
             h[1].role = "user" /\ h[2].role = "assistant"
             /\ h[3].role = "user" /\ h[1].content # h[3].content }

InitQuery ==
    /\ search = SearchIdle
    /\ chunker = ChunkerIdle
    /\ ServerIdle

\* buildRetrievalQuery(question, messages)
BuildQuery(question, messages) ==
    /\ pure' = [fn |-> "buildRetrievalQuery", question |-> question,
                messages |-> messages,
                out |-> buildRetrievalQuery(question, messages)]
    /\ UNCHANGED <<search, chunker, rows, docs, mapCache, req, budget, summarized,
                   calls, cmp>>

NextQuery == \E q \in QueryQuestions, h \in QueryHistories : BuildQuery(q, h)

SpecQuery == InitQuery /\ [][NextQuery]_vars

----------------------------------------------------------------------------
(* Specification SpecRetry: the retrieval options and the history of the   *)
(* first attempt and of the retry of a chat request, under the             *)
(* environments of RetryEnvs.                                              *)

\* longest message history of a request
MaxRetryHistory == 6

RetryEnvs ==
    { [TOP_K |-> k, MAX_CHUNK_CHARS |-> c, MAX_TOTAL_CONTEXT_CHARS |-> t,
       CHAT_HISTORY_MESSAGES |-> h] :
        k \in { <<>>, <<"1">>, <<"2">>, <<"1","2">> },
        c \in { <<>>, <<"4","0","0">>, <<"2","0","0","0">> },
        t \in { <<>>, <<"2","0","0","0">>, <<"9","0","0","0">> },
        h \in { <<>>, <<"2">>, <<"9">> } }

RetryHistories ==
    { [i \in 1..n |-> [role |-> IF i % 2 = 1 THEN "user" ELSE "assistant",
                       content |-> <<"m">>]] : n \in 0..MaxRetryHistory }

InitRetry ==
    /\ search = SearchIdle
    /\ chunker = ChunkerIdle
    /\ ServerIdle

\* what the chat handler computes from getSettings() and body.messages for
\* its two attempts
RetryPlan(env, messages) ==
    /\ pure' = [fn |-> "retry", env |-> env, messages |-> messages,
                settings |-> settingsOf(env),
                first |-> firstOpts(settingsOf(env)),
                tighter |-> tighterOpts(settingsOf(env)),
                firstHistory |-> firstHistory(messages, settingsOf(env)),
                retryHistory |-> retryHistory(messages, settingsOf(env))]
    /\ UNCHANGED <<search, chunker, rows, docs, mapCache, req, budget, summarized,
                   calls, cmp>>

NextRetry == \E env \in RetryEnvs, h \in RetryHistories : RetryPlan(env, h)

SpecRetry == InitRetry /\ [][NextRetry]_vars

----------------------------------------------------------------------------
(* Specification SpecSelect: the chunk selection of summarizeDocument on   *)
(* documents of a few chunks and on one of more than twelve.               *)

\* longest chunk list of the small documents
MaxSelectChunks == 3

\* number of chunks of the large document
LargeDocChunks == 14

SelectTexts ==
    { <<>>, <<"a","b">>, <<"a","b"," ","c","d">>, <<"k","e","y"," ","e","f">> }

LargeDocTexts ==
    [i \in 1..LargeDocChunks |->
        CASE i % 3 = 0 -> <<"a","b">>
          [] i % 3 = 1 -> <<"k","e","y"," ","e","f">>
          [] OTHER -> <<"c","d"," ","a","b">>]

SelectChunkLists ==
    { MkChunks("d", texts) :
        texts \in UNION { [1..n -> SelectTexts] : n \in 1..MaxSelectChunks } }
    \cup { MkChunks("d", LargeDocTexts) }

SelectLimits == { 1, 2, 3, 4, 13, 15 }

SelectQuestions == { <<>>, <<"S","u","m","m","a","r","i","z","e"," ","a","b">> }

\* a request for a selection, before summarizeDocument runs
SelectInputs ==
    { [fn |-> "input", chunks |-> chunks, question |-> q, maxSelectedChunks |-> n,
       top |-> <<>>, selected |-> <<>>] :
        chunks \in SelectChunkLists, q \in SelectQuestions, n \in SelectLimits }

InitSelect ==
    /\ search = SearchIdle
    /\ chunker = ChunkerIdle
    /\ rows = EmptyMap
    /\ docs = EmptyMap
    /\ mapCache = <<>>
    /\ req = ReqIdle
    /\ budget = 0
    /\ summarized = EmptyMap
    /\ calls = NoCalls
    /\ cmp = CmpIdle
    /\ pure \in SelectInputs

\* the selection step of summarizeDocument({ doc, question, maxSelectedChunks })
selectStep(doc, question, maxSelectedChunks) ==
    /\ pure' = [pure EXCEPT
                  !.fn = "select",
                  !.top = topMatches(doc, question, maxSelectedChunks),
                  !.selected = selectChunks(doc, question, maxSelectedChunks)]
    /\ UNCHANGED <<search, chunker, rows, docs, mapCache, req, budget, summarized,
                   calls, cmp>>

Select ==
    /\ pure.fn = "input"
    /\ selectStep([chunks |-> pure.chunks, index |-> buildTfidfIndex(pure.chunks)],
                  pure.question, pure.maxSelectedChunks)

NextSelect == Select

SpecSelect == InitSelect /\ [][NextSelect]_vars

----------------------------------------------------------------------------
(* Specification SpecMap: summary requests on a PDF of more batches than   *)
(* pMapLimit has workers.                                                  *)

\* requests served in one run of SpecMap
MaxMapRequests == 3

LongPdf ==
    [bytes |-> "long",
     rawPages |-> << <<"a","b"," ","c","d">>, <<"e","f"," ","g","h">>,
                     <<"i","j"," ","k","l">>, <<"m","n"," ","o","p">>,
                     <<"q","r"," ","e","f">> >>]

InitMap ==
    /\ search = SearchIdle
    /\ chunker = ChunkerIdle
    /\ rows = EmptyMap
    /\ docs = EmptyMap
    /\ mapCache = <<>>
    /\ req = ReqIdle
    /\ budget = MaxMapRequests
    /\ summarized = EmptyMap
    /\ calls = NoCalls
    /\ cmp = CmpIdle
    /\ pure = PureIdle

NextMap ==
    \/ Upload(LongPdf, "ok")
    \/ ChatStart(stableDocId("long"), T_Summarize, <<>>, TRUE)
    \/ \E i \in req.inflight :
          \E o \in BatchOutcomes(FewBatchRaws(req.batches[i]), {T_Timeout}) :
             BatchReturn(i, o)
    \/ \E o \in TextOutcomes({<<"m">>}, {T_Timeout}) : FallbackReturn(o)
    \/ \E o \in TextOutcomes({<<"S">>}, {T_Timeout}) : ReduceReturn(o)
    \/ \E persistOk \in BOOLEAN : SummaryWrite(persistOk)

SpecMap == InitMap /\ [][NextMap]_vars

----------------------------------------------------------------------------
(* Specification SpecCache: get and set on a cache of createMapCache()     *)
(* while the clock advances.  pure.used and pure.setAt record, for the     *)
(* keys in the map, the number of the last operation that set or hit the   *)
(* key and the clock reading of its last set.                              *)

\* get and set operations in one run of SpecCache
MaxCacheOps == 4

\* last reading of the clock
MaxClock == 3

\* SUMMARY_MAP_CACHE_MAX as parsed by parseIntSafe
CacheMaxEntries == { 0, 1, 2 }

\* SUMMARY_MAP_CACHE_TTL_MS as parsed by parseIntSafe
CacheTtls == { 1, 2 }

CacheKeys == { mapKey(<<"d", i>>) : i \in 0..2 }

CacheValues == { <<"m">>, <<"n">> }

CacheKeysOf(cache) == { cache[i].key : i \in DOMAIN cache }

NoCacheOp == [op |-> "none", key |-> <<>>, result |-> Null, evictedUse |-> {},
              overflow |-> FALSE, held |-> FALSE, heldSetAt |-> 0, at |-> 0]

InitCache ==
    /\ search = SearchIdle
    /\ chunker = ChunkerIdle
    /\ rows = EmptyMap
    /\ docs = EmptyMap
    /\ mapCache = <<>>
    /\ req = ReqIdle
    /\ budget = MaxCacheOps
    /\ summarized = EmptyMap
    /\ calls = NoCalls
    /\ cmp = CmpIdle
    /\ pure \in { [fn |-> "cache", maxEntries |-> n, ttlMs |-> t, now |-> 0, ops |-> 0,
                   used |-> EmptyMap, setAt |-> EmptyMap, last |-> NoCacheOp] :
                  n \in CacheMaxEntries, t \in CacheTtls }

\* Date.now() advances
CacheTick ==
    /\ pure.now < MaxClock
    /\ pure' = [pure EXCEPT !.now = @ + 1]
    /\ UNCHANGED <<search, chunker, rows, docs, mapCache, req, budget, summarized,
                   calls, cmp>>

cacheGetStep(key, after, value) ==
    /\ mapCache' = after
    /\ pure' = [pure EXCEPT
                  !.ops = @ + 1,
                  !.used = [k \in CacheKeysOf(after) |->
                               IF k = key THEN pure.ops + 1 ELSE pure.used[k]],
                  !.setAt = [k \in CacheKeysOf(after) |-> pure.setAt[k]],
                  !.last = [NoCacheOp EXCEPT
                              !.op = "get", !.key = key, !.result = value, !.at = pure.now,
                              !.held = key \in CacheKeysOf(mapCache),
                              !.heldSetAt = IF key \in CacheKeysOf(mapCache)
                                            THEN pure.setAt[key] ELSE 0]]

\* get(key)
CacheGet(key) ==
    /\ budget > 0
    /\ budget' = budget - 1
    /\ cacheGetStep(key, cacheAfterGet(mapCache, key, pure.now),
                    cacheGetValue(mapCache, key, pure.now))
    /\ UNCHANGED <<search, chunker, rows, docs, req, summarized, calls, cmp>>

cacheSetStep(key, after, usedMid) ==
    /\ mapCache' = after
    /\ pure' = [pure EXCEPT
                  !.ops = @ + 1,
                  !.used = [k \in CacheKeysOf(after) |-> usedMid[k]],
                  !.setAt = [k \in CacheKeysOf(after) |->
                               IF k = key THEN pure.now ELSE pure.setAt[k]],
                  !.last = [NoCacheOp EXCEPT
                              !.op = "set", !.key = key, !.at = pure.now,
                              !.overflow = Cardinality(DOMAIN usedMid) > pure.maxEntries,
                              !.evictedUse = { usedMid[k] :
                                                 k \in DOMAIN usedMid \ CacheKeysOf(after) }]]

\* set(key, value)
CacheSet(key, value) ==
    /\ budget > 0
    /\ budget' = budget - 1
    /\ cacheSetStep(key,
                    cacheSetWith(mapCache, key, value, pure.now,
                                 pure.maxEntries, pure.ttlMs),
                    (key :> pure.ops + 1) @@ pure.used)
    /\ UNCHANGED <<search, chunker, rows, docs, req, summarized, calls, cmp>>

NextCache ==
    \/ CacheTick
    \/ \E key \in CacheKeys : CacheGet(key)
    \/ \E key \in CacheKeys, value \in CacheValues : CacheSet(key, value)

SpecCache == InitCache /\ [][NextCache]_vars

----------------------------------------------------------------------------
(* Properties of searchTfidf (SpecSearch)                                  *)

RECURSIVE ExcerptChars(_)
ExcerptChars(results) ==
    IF results = <<>> THEN 0
    ELSE Len(Head(results).chunk.text) + ExcerptChars(Tail(results))

SearchMaxChunkChars == Opt(search.opts, "maxChunkChars", 1400)

SearchMaxTotalChars == Opt(search.opts, "maxTotalChars", 9000)

\* C1: every searchTfidf call returns excerpts whose lengths sum to at most
\* maxTotalChars, each excerpt at most maxChunkChars long, the single-result
\* fallback included.
C1_BudgetEnforced ==
    search.done =>
        /\ ExcerptChars(search.results) <= SearchMaxTotalChars
        /\ \A i \in DOMAIN search.results :
              Len(search.results[i].chunk.text) <= SearchMaxChunkChars

\* C2: on an index built over a chunk list with at least one chunk of
\* non-empty text, searchTfidf returns at least one result, whatever minScore,
\* topK, the character budgets and the query are.
C2_NonEmptyGuarantee ==
    (search.done /\ \E i \in DOMAIN search.chunks : search.chunks[i].text # <<>>)
        => Len(search.results) >= 1

\* C2 witness: a query sharing no term with the vocabulary, under a floor no
\* score reaches, still gets its one result.
C2_Witness ==
    /\ search.done
    /\ search.query = <<"z","z">>
    /\ Opt(search.opts, "minScore", NegInfinity) = 2 * FixedPoint * FixedPoint
    /\ Len(search.chunks) = 2
    /\ \A i \in DOMAIN search.chunks : search.chunks[i].text # <<>>
    /\ Len(search.results) = 1
    /\ search.results[1].score = 0

\* the index built over the chunk list searched
SearchIndex == search.index

\* allowed distance of a fixed-point L2 norm from FixedPoint (2 percent)
NormTolerance == 20

\* the L2 norm of a vector of the index, x FixedPoint
L2Norm(v) == ISqrt(dot(v, v))

UnitNorm(v) ==
    /\ L2Norm(v) >= FixedPoint - NormTolerance
    /\ L2Norm(v) <= FixedPoint + NormTolerance

\* C15: in an index built by buildTfidfIndex there is one vector per chunk,
\* every vector has one slot per vocabulary term, the vector of a chunk
\* with at least one token has L2 norm 1 (within the fixed-point tolerance)
\* and the vector of a chunk with no token is all zero.
C15_VectorsNormalized ==
    search.done =>
        /\ Len(SearchIndex.vectors) = Len(search.chunks)
        /\ Len(SearchIndex.idf) = Len(SearchIndex.vocab)
        /\ \A i \in DOMAIN search.chunks :
              /\ Len(SearchIndex.vectors[i]) = Len(SearchIndex.vocab)
              /\ IF tokenize(search.chunks[i].text) # <<>>
                 THEN UnitNorm(SearchIndex.vectors[i])
                 ELSE \A j \in DOMAIN SearchIndex.vectors[i] :
                         SearchIndex.vectors[i][j] = 0

\* an index over a chunk with several tokens and a chunk with none
C15_Witness ==
    /\ search.done
    /\ Len(SearchIndex.vocab) >= 2
    /\ \E i \in DOMAIN search.chunks, j \in DOMAIN search.chunks :
          /\ Len(tokenize(search.chunks[i].text)) >= 3
          /\ UnitNorm(SearchIndex.vectors[i])
          /\ search.chunks[j].text # <<>>
          /\ tokenize(search.chunks[j].text) = <<>>
          /\ L2Norm(SearchIndex.vectors[j]) = 0

\* the score of chunk i for the query searched
SearchScore(i) == search.scored[i].score

\* the chunk first in the score-sorted order: the best score, the earliest
\* chunk among equals
SearchBest ==
    CHOOSE i \in DOMAIN search.chunks :
        \A j \in DOMAIN search.chunks :
            \/ SearchScore(i) > SearchScore(j)
            \/ SearchScore(i) = SearchScore(j) /\ i <= j

\* what the ranked walk accepted, before the fallback
SearchWalked ==
    rankedWalk(SortByScore(<<>>, search.scored), search.chunks,
               Opt(search.opts, "topK", 5), Opt(search.opts, "minScore", NegInfinity),
               SearchMaxChunkChars, SearchMaxTotalChars,
               [results |-> <<>>, used |-> 0]).results

FallbackCase == search.done /\ SearchWalked = <<>> /\ SearchIndex.vectors # <<>>

\* C16: when the ranked walk accepts no chunk and the index has a vector,
\* searchTfidf returns exactly one result: the chunk first in score order,
\* its text truncated to at most min(maxChunkChars, maxTotalChars)
\* characters, its score unchanged.
C16_FallbackResult ==
    FallbackCase =>
        /\ Len(search.results) = 1
        /\ search.results[1].chunk.id = search.chunks[SearchBest].id
        /\ search.results[1].score = SearchScore(SearchBest)
        /\ Len(search.results[1].chunk.text)
             <= Min(SearchMaxChunkChars, SearchMaxTotalChars)

\* chunk i comes before chunk j in the score-sorted order
RankedBefore(i, j) ==
    \/ SearchScore(i) > SearchScore(j)
    \/ SearchScore(i) = SearchScore(j) /\ i < j

\* the position in the chunk list of the chunk of a result
ChunkOf(result) ==
    CHOOSE i \in DOMAIN search.chunks : search.chunks[i].id = result.chunk.id

Returned(i) ==
    \E a \in DOMAIN search.results : search.results[a].chunk.id = search.chunks[i].id

\* C17: searchTfidf returns at most max(1, topK) results, each chunk at most
\* once, in non-increasing score order with ties in chunk order; outside the
\* fallback case every result scores at least minScore; a chunk left out
\* while a lower-ranked one is returned scores below minScore or has an
\* empty excerpt.
C17_RankedResults ==
    search.done =>
        /\ Len(search.results) <= Max(1, Opt(search.opts, "topK", 5))
        /\ \A a \in DOMAIN search.results :
              /\ \E i \in DOMAIN search.chunks :
                    search.chunks[i].id = search.results[a].chunk.id
              /\ search.results[a].score = SearchScore(ChunkOf(search.results[a]))
        /\ \A a \in DOMAIN search.results, b \in DOMAIN search.results :
              a < b => /\ search.results[a].chunk.id # search.results[b].chunk.id
                       /\ search.results[a].score >= search.results[b].score
                       /\ RankedBefore(ChunkOf(search.results[a]),
                                       ChunkOf(search.results[b]))
        /\ ~FallbackCase =>
              \A a \in DOMAIN search.results :
                  search.results[a].score >= Opt(search.opts, "minScore", NegInfinity)
        /\ \A i \in DOMAIN search.chunks, b \in DOMAIN search.results :
              (~Returned(i) /\ RankedBefore(i, ChunkOf(search.results[b])))
                  => \/ SearchScore(i) < Opt(search.opts, "minScore", NegInfinity)
                     \/ search.chunks[i].text = <<>>

\* the first-ranked chunk has no text and is passed over for the second
C17_Witness ==
    /\ search.done
    /\ ~FallbackCase
    /\ Len(search.chunks) = 2
    /\ search.chunks[1].text = <<>>
    /\ RankedBefore(1, 2)
    /\ Len(search.results) = 1
    /\ search.results[1].chunk.id = search.chunks[2].id
    /\ Opt(search.opts, "topK", 5) = 0

----------------------------------------------------------------------------
(* Properties of chunkPages (SpecChunk)                                    *)

RECURSIVE Concat(_)
Concat(parts) == IF parts = <<>> THEN <<>> ELSE Head(parts) \o Concat(Tail(parts))

DeleteNewlines(s) == SelectSeq(s, LAMBDA c : c # "\n")

\* the overlap tail of chunk k-1 as it stands at the head of chunk k
CarriedTail(chunks, k, overlapChars) ==
    IF k = 1 \/ overlapChars <= 0 THEN <<>>
    ELSE TrimStart(SliceLast(chunks[k - 1].text, overlapChars))

\* chunk k without the overlap tail duplicated from chunk k-1
OwnText(chunks, k, overlapChars) ==
    LET pre == CarriedTail(chunks, k, overlapChars)
        t   == chunks[k].text
    IN  IF StartsWith(t, pre) THEN SubSeq(t, Len(pre) + 1, Len(t)) ELSE t

\* the chunks' own texts, paragraph separators aside, are the page texts in
\* page order
ChunkCoverage(pages, chunks, overlapChars) ==
    DeleteNewlines(Concat([k \in DOMAIN chunks |-> OwnText(chunks, k, overlapChars)]))
        = Concat([i \in DOMAIN pages |-> pages[i].text])

PagesNormalized(pages) ==
    \A i \in DOMAIN pages : pages[i].text = normalizeText(pages[i].text)

\* C5 as stated: for any page sequence, targetChars and overlapChars, the
\* chunk texts without their overlap-duplicated heads contain every non-empty
\* page's text exactly once, in page order.
C5_ChunkCoverage ==
    chunker.done =>
        ChunkCoverage(chunker.pages, chunker.chunks, chunker.overlapChars)

\* C5 amended: the same, for pages whose text is normalised as extractPages
\* leaves it (no leading or trailing whitespace, single blanks).
C5_ChunkCoverageNormalized ==
    (chunker.done /\ PagesNormalized(chunker.pages)) =>
        ChunkCoverage(chunker.pages, chunker.chunks, chunker.overlapChars)

\* C5 witness: three normalised pages split into overlapping chunks.
C5_Witness ==
    /\ chunker.done
    /\ PagesNormalized(chunker.pages)
    /\ Len(chunker.pages) = 3
    /\ \A i \in DOMAIN chunker.pages : chunker.pages[i].text # <<>>
    /\ chunker.overlapChars = 2
    /\ chunker.targetChars = 3
    /\ Len(chunker.chunks) >= 3

\* C6: a single page whose (readable, normalised) text is at least
\* targetChars long yields exactly one chunk, for every overlapChars.
C6_SinglePageOneChunk ==
    (/\ chunker.done
     /\ Len(chunker.pages) = 1
     /\ PagesNormalized(chunker.pages)
     /\ chunker.pages[1].text # <<>>
     /\ Len(chunker.pages[1].text) >= chunker.targetChars)
        => Len(chunker.chunks) = 1

EndsWith(h, n) == Len(n) <= Len(h) /\ SubSeq(h, Len(h) - Len(n) + 1, Len(h)) = n

\* flush() carried an overlap tail of chunk k over to the next buffer
TailCarried(k) ==
    /\ chunker.overlapChars > 0
    /\ Trim(SliceLast(chunker.chunks[k].text, chunker.overlapChars)) # <<>>

PageText(n) == Trim(chunker.pages[n].text)

\* C24: for pages numbered in ascending order, every chunk of chunkPages
\* has pageStart <= pageEnd, both numbers of pages with text; the chunk's
\* text ends with the text of page pageEnd (or is an overlap tail of it)
\* and, when no tail was carried into the chunk, begins with the text of
\* page pageStart; chunk k+1 starts at the pageEnd of chunk k when a tail
\* of chunk k was carried over and at a later page otherwise.
C24_PageRangesAscending ==
    chunker.done =>
        /\ \A k \in DOMAIN chunker.chunks :
              /\ chunker.chunks[k].pageStart <= chunker.chunks[k].pageEnd
              /\ chunker.chunks[k].pageStart \in DOMAIN chunker.pages
              /\ chunker.chunks[k].pageEnd \in DOMAIN chunker.pages
              /\ chunker.pages[chunker.chunks[k].pageStart].text # <<>>
              /\ chunker.pages[chunker.chunks[k].pageEnd].text # <<>>
              /\ \/ EndsWith(chunker.chunks[k].text, PageText(chunker.chunks[k].pageEnd))
                 \/ EndsWith(PageText(chunker.chunks[k].pageEnd), chunker.chunks[k].text)
              /\ (k = 1 \/ ~TailCarried(k - 1)) =>
                    StartsWith(chunker.chunks[k].text, PageText(chunker.chunks[k].pageStart))
        /\ \A k \in DOMAIN chunker.chunks :
              k + 1 \in DOMAIN chunker.chunks =>
                  /\ TailCarried(k) =>
                        chunker.chunks[k + 1].pageStart = chunker.chunks[k].pageEnd
                  /\ ~TailCarried(k) =>
                        chunker.chunks[k + 1].pageStart > chunker.chunks[k].pageEnd

\* a chunk that starts with the tail carried from page 1 and runs to page 3
C24_Witness ==
    /\ chunker.done
    /\ Len(chunker.chunks) >= 2
    /\ TailCarried(1)
    /\ chunker.chunks[1].pageEnd = 1
    /\ chunker.chunks[2].pageStart = 1
    /\ chunker.chunks[2].pageEnd = 3

\* chunk k is nothing but the overlap tail carried over from chunk k-1
TailOnly(k) ==
    /\ k > 1
    /\ TailCarried(k - 1)
    /\ chunker.chunks[k].pageEnd = chunker.chunks[k - 1].pageEnd
    /\ chunker.chunks[k].text
         = Trim(SliceLast(chunker.chunks[k - 1].text, chunker.overlapChars))

\* C27: no chunk of chunkPages consists only of the overlap tail of the
\* chunk before it; every chunk holds the text of a page that no earlier
\* chunk held.
C27_NoTailOnlyChunk ==
    chunker.done => \A k \in DOMAIN chunker.chunks : ~TailOnly(k)

----------------------------------------------------------------------------
(* Properties of the chat handler (Spec)                                   *)

SummaryRequest == req.kind = "chat" /\ isSummaryQuestion(req.question)

PlainRequest == req.kind = "chat" /\ ~isSummaryQuestion(req.question)

Answered == req.pc = "done" /\ req.status = 200

\* C3: once a summary request on a document has completed with a non-blank
\* summary that was written to the store, every later summary request on the
\* same document makes no generation call and, when it is answered, returns
\* that same summary text.
C3_SummaryServedFromCache ==
    (SummaryRequest /\ req.prior.known /\ req.prior.written
                    /\ req.prior.text # <<>>)
        => /\ req.gen = <<>>
           /\ Answered => req.answer = req.prior.text

AllPagesEmpty(pages) == \A i \in DOMAIN pages : pages[i].text = <<>>

\* C4: a stored document whose pages are all empty has no chunks, and every
\* chat request on it, plain or summary-style, is answered at once with the
\* fixed no-readable-text answer, no sources and no generation call.
C4_NoReadableText ==
    /\ \A id \in DOMAIN rows :
          AllPagesEmpty(rows[id].pages) => rows[id].chunks = <<>>
    /\ (/\ req.kind = "chat"
        /\ req.docId \in DOMAIN docs
        /\ AllPagesEmpty(docs[req.docId].pages))
          => /\ Answered
             /\ req.answer = NO_READABLE_TEXT_ANSWER
             /\ req.sources = <<>>
             /\ req.gen = <<>>

\* C4 witness: a summary-style request on the scanned PDF, answered.
C4_Witness ==
    /\ SummaryRequest
    /\ req.docId = stableDocId("scan")
    /\ req.docId \in DOMAIN docs
    /\ Len(docs[req.docId].pages) = 2
    /\ AllPagesEmpty(docs[req.docId].pages)
    /\ Answered
    /\ req.answer = NO_READABLE_TEXT_ANSWER

\* the error messages of the runs that signal a request too large
TooLargeSignals == { T_TooLarge, T_RateLimit }

\* C8: a plain chat request makes at most two generation calls; the second
\* is made only after the first failed with a request-too-large signal; a
\* first call failed otherwise, or a failed second call, ends the request
\* as failed.
C8_AtMostOneRetry ==
    PlainRequest =>
        /\ Len(req.gen) <= 2
        /\ Len(req.gen) >= 1 => req.gen[1].phase = "chat"
        /\ Len(req.gen) = 2 =>
              /\ req.gen[2].phase = "retry"
              /\ req.gen[1].status = "failed"
              /\ req.gen[1].message \in TooLargeSignals
        /\ (Len(req.gen) >= 1 /\ req.gen[1].status = "failed"
                              /\ req.gen[1].message \notin TooLargeSignals)
              => Len(req.gen) = 1 /\ req.pc = "done" /\ req.status = 400
        /\ (Len(req.gen) = 2 /\ req.gen[2].status = "failed")
              => req.pc = "done" /\ req.status = 400

\* C8 witness: the first call failed as too large, the retry failed as well.
C8_Witness ==
    /\ PlainRequest
    /\ Len(req.gen) = 2
    /\ req.gen[1].message = T_RateLimit
    /\ req.gen[2].status = "failed"
    /\ req.status = 400

\* what the plain branch retrieves for the current request
Retrieved ==
    retrieve(docs[req.docId], buildRetrievalQuery(req.question, req.messages))

\* a plain request on a stored document with readable text
PlainOnText ==
    /\ PlainRequest
    /\ req.docId \in DOMAIN docs
    /\ chatBranch(docs[req.docId], req.question) = "plain"

\* C11: a plain chat request for which no retrieved chunk scores at least
\* MIN_SIMILARITY is answered at once with the no-relevant-section answer,
\* no sources and no generation call.
C11_WeakRetrievalNotGenerated ==
    (/\ PlainOnText
     /\ \A i \in DOMAIN Retrieved : Retrieved[i].score < getSettings.minSimilarity)
        => /\ Answered
           /\ req.answer = NO_RELEVANT_SECTION_ANSWER
           /\ req.sources = <<>>
           /\ req.gen = <<>>


\* the generation call that produced the answer of the request
AnsweringCalls ==
    { k \in DOMAIN req.gen : req.gen[k].phase \in {"chat", "retry"}
                             /\ req.gen[k].status = "ok" }

SourceIds == [i \in DOMAIN req.sources |-> req.sources[i].chunkId]

\* C25: the sources returned with the answer of a plain chat request are
\* the chunks, in the same order, of the excerpts in the prompt of the
\* generation call that produced the answer, the retry call included.
C25_SourcesMatchPrompt ==
    (PlainRequest /\ Answered /\ AnsweringCalls # {}) =>
        \A k \in AnsweringCalls : SourceIds = req.gen[k].ids


\* the step is an upload whose store.upsert failed
UploadPersistFails ==
    /\ budget' = budget - 1
    /\ req'.kind = "upload"
    /\ req'.persistFailed

\* the step is the summary write of a chat request whose store.upsert failed
SummaryPersistFails ==
    /\ req.kind = "chat" /\ req.pc = "write"
    /\ req'.pc = "done"
    /\ req'.persistFailed

\* C29: a store.upsert whose persistence write fails throws and leaves the
\* cache and the table as they were: an upload answers 500; the summary
\* write of a chat request swallows the error and the request answers 200
\* with the summary just generated and its sources.
C29_FailedWriteKeepsCache ==
    [][/\ UploadPersistFails =>
             /\ docs' = docs /\ rows' = rows
             /\ req'.status = 500
       /\ SummaryPersistFails =>
             /\ docs' = docs /\ rows' = rows
             /\ req'.status = 200
             /\ req'.answerKind = "summary"
             /\ req'.answer = req.summary
             /\ req'.sources = req.sources
             /\ req.reduceInput # <<>> =>
                   /\ req'.sources = summarySources(req.reduceInput)
                   /\ \E k \in DOMAIN req.gen :
                         /\ req.gen[k].phase = "reduce" /\ req.gen[k].status = "ok"]_vars

\* a generated summary returned with its sources although its write failed,
\* the cached document still without a summary
C29_Witness ==
    /\ req.kind = "chat" /\ req.pc = "done" /\ req.persistFailed
    /\ req.status = 200
    /\ req.answer # <<>>
    /\ req.sources # <<>>
    /\ req.docId \in DOMAIN docs
    /\ docs[req.docId].summary = Null


\* the step is a successful upload of a PDF whose id is already stored
ReUpload ==
    /\ budget' = budget - 1
    /\ req'.kind = "upload"
    /\ req'.status = 200
    /\ req'.docId \in DOMAIN rows

\* C30: the upload of a PDF whose bytes, and so whose id, are those of a
\* stored document leaves the summary of that document as it was, in its
\* row and in its cache entry.
C30_ReUploadKeepsSummary ==
    [][ReUpload =>
          /\ rows'[req'.docId].summary = rows[req'.docId].summary
          /\ req'.docId \in DOMAIN docs =>
                docs'[req'.docId].summary = docs[req'.docId].summary]_vars

----------------------------------------------------------------------------
(* Properties of summarizeDocument (SpecSummarize)                         *)

\* a summarizeDocument run that reached its end with no failed call
SummarizeDone ==
    /\ SummaryRequest
    /\ req.items # <<>>
    /\ req.pc \in {"write", "done"}
    /\ \A k \in DOMAIN req.gen : req.gen[k].status = "ok"

\* chunk ids with a non-empty summary in the parsed output of some batch
Named ==
    UNION { { req.parsed[i].items[j].chunkId :
                j \in { j \in DOMAIN req.parsed[i].items :
                          req.parsed[i].items[j].summary # <<>> } } :
            i \in DOMAIN req.parsed }

FallbackCalls(id) ==
    { k \in DOMAIN req.gen : req.gen[k].phase = "fallback" /\ req.gen[k].ids = <<id>> }

\* C9: at the end of a run with no failed call, the reduce input and the
\* sources list the selected chunks one by one in selection order, each with
\* the map summary the run holds for it; and every selected chunk that was
\* no cache hit and has no non-empty summary in a parsed batch output got
\* exactly one individual map call.
C9_NoChunkDropped ==
    SummarizeDone =>
        /\ idsOf(req.reduceInput) = idsOf(req.items)
        /\ idsOf(req.sources) = idsOf(req.items)
        /\ \A i \in DOMAIN req.items :
              LET id == req.items[i].chunkId
              IN  /\ id \in DOMAIN req.got
                  /\ req.reduceInput[i].summary = req.got[id]
                  /\ (id \notin req.hits /\ id \notin Named)
                        => Cardinality(FallbackCalls(id)) = 1

\* C9 witness: a finished run with a cache hit, a chunk summarised by its
\* batch and a chunk summarised by an individual call.
C9_Witness ==
    /\ SummarizeDone
    /\ Answered
    /\ Len(req.items) = 3
    /\ req.hits # {}
    /\ \E i \in DOMAIN req.items :
          req.items[i].chunkId \in Named \ req.hits
    /\ \E i \in DOMAIN req.items :
          FallbackCalls(req.items[i].chunkId) # {}

\* the selected chunks whose map summary a call of the run had returned when
\* the run failed
ObtainedBeforeFailure ==
    UNION { { req.outAtFail[i][j].chunkId : j \in DOMAIN req.outAtFail[i] } :
            i \in DOMAIN req.outAtFail }
    \cap { req.items[i].chunkId : i \in DOMAIN req.items }

Usable(v) == ~v.isNull /\ Trim(v.text) # <<>>

\* C10: a summarization request in which a generation call failed is
\* answered with an error, leaves the document without a stored summary, and
\* leaves in the map cache the map summaries its calls had returned.
C10_FailedRunKeepsMapSummaries ==
    (SummaryRequest /\ req.items # <<>> /\ req.pc = "done" /\ req.status = 400)
        => /\ req.answer = <<>>
           /\ ~Usable(rows[req.docId].summary)
           /\ \A id \in ObtainedBeforeFailure :
                 Usable(cacheGetValue(mapCache, mapKey(id), ClockNow))


SelectedIds == { req.items[i].chunkId : i \in DOMAIN req.items }

\* C26: a summarizeDocument run holds map summaries, and leaves map-cache
\* entries, only under the chunk ids of its selected chunks, and the
\* entries a batched call contributes are of chunks sent in that batch,
\* whatever chunkId values the completion names.
C26_MapWritesOwnChunksOnly ==
    (SummaryRequest /\ req.items # <<>>) =>
        /\ DOMAIN req.got \subseteq SelectedIds
        /\ \A i \in DOMAIN mapCache :
              \E id \in SelectedIds : mapCache[i].key = mapKey(id)
        /\ \A n \in DOMAIN req.out :
              \A j \in DOMAIN req.out[n] :
                  req.out[n][j].chunkId \in { req.batches[n][b].chunkId :
                                                b \in DOMAIN req.batches[n] }

----------------------------------------------------------------------------
(* Properties of DocumentStore (SpecStore)                                 *)

\* the index of a document is the one buildTfidfIndex makes of its chunks
IndexedFromOwnChunks(doc) ==
    /\ doc.index = buildTfidfIndex(doc.chunks)
    /\ Len(doc.index.vectors) = Len(doc.chunks)

\* a call of get or upsert that went through its await and published
Published(c) ==
    /\ calls[c].pc = "done"
    /\ \/ calls[c].outcome = "stored"
       \/ calls[c].outcome = "doc" /\ calls[c].cold

\* C12: under every interleaving of get and upsert calls, every entry of the
\* cache, and every document a get call hands out, carries an index built
\* completely from the chunk list of that same entry, with one vector per
\* chunk; the rows of the table hold no index.
C12_CacheEntryIndexedFromOwnChunks ==
    /\ \A id \in DOMAIN docs : IndexedFromOwnChunks(docs[id])
    /\ \A c \in 1..MaxCalls :
          (calls[c].pc = "done" /\ calls[c].outcome \in {"doc", "stored"})
              => IndexedFromOwnChunks(calls[c].result)
    /\ \A id \in DOMAIN rows : "index" \notin DOMAIN rows[id]

\* a cold get and an upsert of a document carrying a foreign index have both
\* published, the upsert's chunk list differing from the one the get loaded
C12_Witness ==
    \E c1 \in 1..MaxCalls, c2 \in 1..MaxCalls :
        /\ Published(c1) /\ calls[c1].op = "get"
        /\ Published(c2) /\ calls[c2].op = "upsert"
        /\ calls[c2].doc.index = StaleIndex
        /\ calls[c1].result.chunks # calls[c2].result.chunks
        /\ StoreId \in DOMAIN docs


\* no call of get or upsert is between its start and its completion
StoreQuiescent == \A c \in 1..MaxCalls : calls[c].pc \in {"idle", "done"}

\* the cache entry has the chunks and the summary of the row
CacheMatchesRow ==
    (StoreId \in DOMAIN docs /\ StoreId \in DOMAIN rows) =>
        /\ docs[StoreId].chunks = rows[StoreId].chunks
        /\ docs[StoreId].summary = rows[StoreId].summary

\* call c is a cold get that resumes with a row read before the entry now
\* in the cache was written
StaleLoadResumes(c) ==
    /\ calls[c].op = "get" /\ calls[c].pc = "read" /\ calls[c].found
    /\ calls'[c].pc = "done"
    /\ StoreId \in DOMAIN docs
    /\ StoreId \in DOMAIN rows
    /\ calls[c].data # rows[StoreId]

\* C28: once every call of an interleaving of cold get and upsert calls on
\* one document id has completed, the cache entry of the id has the chunks
\* and the summary of the row last persisted; a cold get that read the row
\* before an upsert leaves the cache entry written by that upsert alone.
C28_CacheMatchesLastRow ==
    /\ [](StoreQuiescent => CacheMatchesRow)
    /\ [][\A c \in 1..MaxCalls : StaleLoadResumes(c) => docs' = docs]_vars

----------------------------------------------------------------------------
(* Properties of the compare handler (SpecCompare)                         *)

\* a compare request whose two documents were found and searched
Compared == cmp.pc \in {"gen", "done"} /\ cmp.docA # NoDoc

\* side A of the request in cmp, had the other document been docB
SideAWith(docB) ==
    compareStart(cmp.env, cmp.docA, docB, cmp.mode, cmp.task).aRetrieved

\* side B of the request in cmp, had the other document been docA
SideBWith(docA) ==
    compareStart(cmp.env, docA, cmp.docB, cmp.mode, cmp.task).bRetrieved

\* C13: in a compare request each side is searched on its own document with
\* maxTotalChars = floor(maxTotalContextChars / 2), the excerpts of the two
\* sides together hold at most maxTotalContextChars characters, and the
\* results of one side are the same whatever the other document is.
C13_CompareSidesWithinBudget ==
    Compared =>
        /\ cmp.aRetrieved =
             searchTfidf(buildTfidfIndex(cmp.docA.chunks), cmp.docA.chunks,
                 buildCompareRetrievalQuery(cmp.mode, cmp.task),
                 [compareOpts(settingsOf(cmp.env), cmp.mode) EXCEPT !.maxTotalChars =
                     settingsOf(cmp.env).maxTotalContextChars \div 2])
        /\ cmp.bRetrieved =
             searchTfidf(buildTfidfIndex(cmp.docB.chunks), cmp.docB.chunks,
                 buildCompareRetrievalQuery(cmp.mode, cmp.task),
                 [compareOpts(settingsOf(cmp.env), cmp.mode) EXCEPT !.maxTotalChars =
                     settingsOf(cmp.env).maxTotalContextChars \div 2])
        /\ ExcerptChars(cmp.aRetrieved) + ExcerptChars(cmp.bRetrieved)
             <= settingsOf(cmp.env).maxTotalContextChars
        /\ \A x \in DOMAIN rows :
             /\ SideAWith(docFromRow(rows[x])) = cmp.aRetrieved
             /\ SideBWith(docFromRow(rows[x])) = cmp.bRetrieved

----------------------------------------------------------------------------
(* Properties of buildRetrievalQuery (SpecQuery)                           *)

QueryCall == pure.fn = "buildRetrievalQuery"

\* the content of the last message of a role, empty when there is none
LastContent(role) ==
    LET own == SelectSeq(pure.messages, LAMBDA m : m.role = role)
    IN  IF own = <<>> THEN <<>> ELSE own[Len(own)].content

\* the first n characters of a text
Prefix(s, n) == IF Len(s) <= n THEN s ELSE SubSeq(s, 1, n)

ContextHeader == <<"C","o","n","t","e","x","t"," ","f","r","o","m"," ","c","o","n","v","e","r","s","a","t","i","o","n"," ","(","f","o","r"," ","r","e","t","r","i","e","v","a","l"," ","o","n","l","y",")",":">>

UserLabel == <<"P","r","e","v","i","o","u","s"," ","u","s","e","r"," ","q","u","e","s","t","i","o","n",":"," ">>

AssistantLabel == <<"P","r","e","v","i","o","u","s"," ","a","s","s","i","s","t","a","n","t"," ","a","n","s","w","e","r",":"," ">>

\* the line of a previous message, left out when the message is empty
ContextLine(label, content) ==
    IF content = <<>> THEN <<>> ELSE <<"\n">> \o label \o content

FollowUpCall ==
    /\ QueryCall
    /\ isFollowUpQuestion(pure.question)
    /\ pure.messages # <<>>

\* C14: buildRetrievalQuery returns the trimmed question unless the question
\* is a follow-up and the history is non-empty; then the query is the
\* question followed by the content of the last user message clamped to 600
\* characters and that of the last assistant message clamped to 900, each
\* left out when empty.
C14_RetrievalQuery ==
    QueryCall =>
        IF FollowUpCall
        THEN /\ StartsWith(pure.out, Trim(pure.question))
             /\ pure.out =
                   Trim(pure.question) \o <<"\n">> \o ContextHeader
                   \o ContextLine(UserLabel, Prefix(LastContent("user"), 600))
                   \o ContextLine(AssistantLabel, Prefix(LastContent("assistant"), 900))
        ELSE pure.out = Trim(pure.question)

\* a follow-up call whose last user and assistant messages both exceed
\* their clamps
C14_Witness ==
    /\ FollowUpCall
    /\ Len(LastContent("user")) > 600
    /\ Len(LastContent("assistant")) > 900
    /\ Len(pure.out) = Len(Trim(pure.question)) + 1 + Len(ContextHeader)
                          + 1 + Len(UserLabel) + 600 + 1 + Len(AssistantLabel) + 900

----------------------------------------------------------------------------
(* Properties of the chat retry (SpecRetry)                                *)

RetryCall == pure.fn = "retry"

\* C18: for every configuration the retry of a chat request is tighter than
\* the first attempt: its topK is at most min(3, topK), its maxChunkChars
\* and maxTotalChars are 60 percent of the configured values and never
\* larger than them, and its prompt carries at most
\* min(4, chatHistoryMessages) history messages.
C18_RetryTightened ==
    RetryCall =>
        /\ pure.tighter.topK <= Min(3, pure.settings.topK)
        /\ pure.tighter.maxChunkChars = (pure.settings.maxChunkChars * 6) \div 10
        /\ pure.tighter.maxChunkChars <= pure.settings.maxChunkChars
        /\ pure.tighter.maxTotalChars = (pure.settings.maxTotalContextChars * 6) \div 10
        /\ pure.tighter.maxTotalChars <= pure.settings.maxTotalContextChars
        /\ Len(pure.retryHistory) <= Min(4, pure.settings.chatHistoryMessages)

\* the base topK of the configuration of the compare request
BaseTopK == settingsOf(cmp.env).topK

BonusMode == cmp.mode \in {"literal", "structure"}

\* C19: in a compare request the topK passed to retrieval is
\* min(10, base + 3) for the modes literal and structure and the base topK
\* for the other modes, and for every configured base topK the value for
\* literal and structure is larger than the base.
C19_TopKForMode ==
    Compared =>
        /\ cmp.opts.topK = IF BonusMode THEN Min(10, BaseTopK + 3) ELSE BaseTopK
        /\ BonusMode => cmp.opts.topK > BaseTopK

----------------------------------------------------------------------------
(* Properties of the selection of summarizeDocument (SpecSelect)           *)

SelectCall == pure.fn = "select"

IdsOf(entries) == { entries[i].chunk.id : i \in DOMAIN entries }

\* the ids of the even sample the selection drew
SampleIds ==
    { c.id : c \in { sampleEvenly(pure.chunks,
                        Max(0, pure.maxSelectedChunks - Len(pure.top)))[i] :
                     i \in DOMAIN sampleEvenly(pure.chunks,
                        Max(0, pure.maxSelectedChunks - Len(pure.top))) } }

\* C20: the selection of summarizeDocument has at most maxSelectedChunks
\* entries and no chunk id twice; the top matches, at most
\* min(12, maxSelectedChunks), come first and the sampled chunks after
\* them; a chunk that is both a top match and a sampled chunk is kept as
\* the top match only; when the document has no more chunks than
\* maxSelectedChunks minus the number of top matches, all its chunks are
\* selected.
C20_SelectionBounded ==
    SelectCall =>
        /\ Len(pure.selected) <= pure.maxSelectedChunks
        /\ \A i \in DOMAIN pure.selected, j \in DOMAIN pure.selected :
              i # j => pure.selected[i].chunk.id # pure.selected[j].chunk.id
        /\ Len(pure.top) <= Min(12, pure.maxSelectedChunks)
        /\ \A i \in DOMAIN pure.top :
              i \in DOMAIN pure.selected /\ pure.selected[i] = pure.top[i]
        /\ \A i \in DOMAIN pure.selected :
              i > Len(pure.top) =>
                  /\ pure.selected[i].chunk.id \in SampleIds
                  /\ pure.selected[i].chunk.id \notin IdsOf(pure.top)
                  /\ pure.selected[i].score = 0
        /\ Len(pure.chunks) <= pure.maxSelectedChunks - Len(pure.top) =>
              \A c \in DOMAIN pure.chunks : pure.chunks[c].id \in IdsOf(pure.selected)

\* twelve top matches on the large document, and a sampled chunk that is
\* also a top match kept once
C20_Witness ==
    /\ SelectCall
    /\ Len(pure.top) = 12
    /\ pure.maxSelectedChunks > 12
    /\ SampleIds \cap IdsOf(pure.top) # {}
    /\ Len(pure.selected) > Len(pure.top)
    /\ Len(pure.selected) < pure.maxSelectedChunks

----------------------------------------------------------------------------
(* Properties of the stages of summarizeDocument (SpecMap)                 *)

\* the generation calls of the request, in the order they were issued
GenLog == req.gen

StageRank(phase) ==
    CASE phase = "batch" -> 1
      [] phase = "fallback" -> 2
      [] phase = "reduce" -> 3
      [] OTHER -> 0

ReduceCalls == { k \in DOMAIN GenLog : GenLog[k].phase = "reduce" }

SummarizeSucceeded ==
    /\ req.kind = "chat" /\ req.pc = "done" /\ req.status = 200
    /\ req.answerKind = "summary"
    /\ req.items # <<>>

\* C21: the generation calls of a summarizeDocument run are issued in the
\* order batched map, fallback map, reduce and never step back; the reduce
\* call is issued at most once, only when every batched and every fallback
\* call issued before it has resolved, and exactly once in a successful run.
C21_StagesInOrder ==
    /\ \A k \in DOMAIN GenLog, l \in DOMAIN GenLog :
          k < l => StageRank(GenLog[k].phase) <= StageRank(GenLog[l].phase)
    /\ Cardinality(ReduceCalls) <= 1
    /\ \A k \in ReduceCalls :
          \A l \in DOMAIN GenLog :
              l # k => /\ GenLog[l].phase \in {"batch", "fallback"}
                       /\ GenLog[l].status = "ok"
    /\ SummarizeSucceeded => Cardinality(ReduceCalls) = 1

\* a successful run of three batches on two workers and a fallback call
C21_Witness ==
    /\ SummarizeSucceeded
    /\ Cardinality({ k \in DOMAIN GenLog : GenLog[k].phase = "batch" }) = 3
    /\ \E k \in DOMAIN GenLog : GenLog[k].phase = "fallback"
    /\ \E k \in ReduceCalls : GenLog[k].status = "ok"


BatchCalls == { k \in DOMAIN GenLog : GenLog[k].phase = "batch" }

FallbackMapCalls == { k \in DOMAIN GenLog : GenLog[k].phase = "fallback" }

Pending(issued) == { k \in issued : GenLog[k].status = "pending" }

\* pMapLimit has resolved: the run is past its map phase
MapPhaseResolved == req.kind = "chat" /\ req.pc \in {"fallback", "reduce", "write"}

----------------------------------------------------------------------------
(* Properties of the map-summary cache (SpecCache)                         *)

CacheRun == pure.fn = "cache"

\* C23: the map-summary cache holds at most maxEntries entries; a set that
\* overflows the capacity evicts exactly the overflow, and every evicted
\* entry was set or hit longer ago than every entry kept; get returns a
\* value only while Date.now() <= (time of the entry's last set) + ttl, and
\* otherwise deletes the entry and reports a miss; an entry's expiry is
\* that of its last set, whatever reads it had.
C23_MapCacheBounded ==
    CacheRun =>
        /\ Len(mapCache) <= pure.maxEntries
        /\ pure.last.op = "set" =>
              /\ pure.last.overflow => Len(mapCache) = pure.maxEntries
              /\ ~pure.last.overflow => pure.last.evictedUse = {}
              /\ \A u \in pure.last.evictedUse, k \in CacheKeysOf(mapCache) :
                    u < pure.used[k]
        /\ pure.last.op = "get" =>
              /\ ~pure.last.result.isNull =>
                    /\ pure.last.held
                    /\ pure.last.at <= pure.last.heldSetAt + pure.ttlMs
              /\ (pure.last.held /\ pure.last.at > pure.last.heldSetAt + pure.ttlMs) =>
                    /\ pure.last.result.isNull
                    /\ pure.last.key \notin CacheKeysOf(mapCache)
        /\ \A i \in DOMAIN mapCache :
              mapCache[i].expiresAt = pure.setAt[mapCache[i].key] + pure.ttlMs

\* a set evicted an entry that was set after an entry it kept, because the
\* kept entry had been read since
C23_Witness ==
    /\ CacheRun
    /\ pure.last.op = "set"
    /\ pure.last.evictedUse # {}
    /\ \E k \in CacheKeysOf(mapCache) \ {pure.last.key} :
          \E u \in pure.last.evictedUse : pure.setAt[k] < pure.last.at /\ u < pure.used[k]
    /\ \E i \in DOMAIN mapCache : mapCache[i].key # pure.last.key
                                   /\ mapCache[i].expiresAt < pure.last.at + pure.ttlMs
====
